---- MODULE Spec2Model ----
(***************************************************************************)
(* QuerySenseAI: the request pipeline of QueryAgent.ask (src/agent.py),    *)
(* called by chat (src/app.py), the export-job registry and its            *)
(* background tasks.                                                       *)
(*                                                                         *)
(* Spec is the server that answers any request; ExportSpec is the server   *)
(* on the requests whose result is exported, StatusSpec adds the status    *)
(* route export_status to it.  RewriteSpec applies the two rewriting       *)
(* functions to SQL texts, SummarySpec evaluates the derived summary       *)
(* statement on filtered populations.                                      *)
(*                                                                         *)
(* Text is modelled as TLA+ strings, character by character: the regular   *)
(* expressions of the source are written out as operators over Len, SubSeq *)
(* and \o.  Non-ASCII decoration of the canned messages (emoji) is left    *)
(* out of the string literals; nothing in the code reads it.               *)
(***************************************************************************)
EXTENDS Integers, Sequences, FiniteSets, TLC

(***************************************************************************)
(* Characters and Python's str / re primitives                             *)
(***************************************************************************)
LOWERCASE == "abcdefghijklmnopqrstuvwxyz"
UPPERCASE == "ABCDEFGHIJKLMNOPQRSTUVWXYZ"
DIGITS == "0123456789"

Ch(s, i) == IF i >= 1 /\ i <= Len(s) THEN SubSeq(s, i, i) ELSE ""

CharsOf(s) == {SubSeq(s, i, i) : i \in 1..Len(s)}

LowerChars == CharsOf(LOWERCASE)
UpperChars == CharsOf(UPPERCASE)
DigitChars == CharsOf(DIGITS)

\* \w of Python's re on the ASCII range
WordChars == LowerChars \cup UpperChars \cup DigitChars \cup {"_"}

IsWordChar(c) == c \in WordChars

\* \s of Python's re, and the characters str.strip() removes
SpaceChars == {" ", "\n", "\t", "\r"}

IsSpace(c) == c \in SpaceChars

IndexIn(alphabet, c) == CHOOSE i \in 1..Len(alphabet) : SubSeq(alphabet, i, i) = c

LowerCh(c) == IF c \in UpperChars THEN Ch(LOWERCASE, IndexIn(UPPERCASE, c)) ELSE c

UpperCh(c) == IF c \in LowerChars THEN Ch(UPPERCASE, IndexIn(LOWERCASE, c)) ELSE c

RECURSIVE Lower(_)
\* str.lower()
Lower(s) ==
    IF s = "" THEN "" ELSE IF Len(s) = 1 THEN LowerCh(s)
    ELSE Lower(SubSeq(s, 1, Len(s) \div 2)) \o Lower(SubSeq(s, Len(s) \div 2 + 1, Len(s)))

RECURSIVE Upper(_)
\* str.upper()
Upper(s) ==
    IF s = "" THEN "" ELSE IF Len(s) = 1 THEN UpperCh(s)
    ELSE Upper(SubSeq(s, 1, Len(s) \div 2)) \o Upper(SubSeq(s, Len(s) \div 2 + 1, Len(s)))

Min(S) == CHOOSE x \in S : \A y \in S : x <= y

Max0(S) == CHOOSE x \in S : \A y \in S : y <= x

\* the first and the last element of the set of positions P, 0 when it is empty
First(P) == IF P = {} THEN 0 ELSE Min(P)

Last(P) == IF P = {} THEN 0 ELSE Max0(P)

\* s[i-1:] of Python, for a 1-based i
From(s, i) == IF i > Len(s) THEN "" ELSE SubSeq(s, i, Len(s))

\* the characters of s from position i to before position j
Between(s, i, j) == IF j <= i THEN "" ELSE SubSeq(s, i, j - 1)

\* the end of a greedy \s* that starts at position i
SkipSpaces(s, i) == Min({j \in i..(Len(s) + 1) : ~IsSpace(Ch(s, j))})

\* the end of the greedy run of characters of the set chars that starts at position i
RunEnd(s, i, chars) == Min({j \in i..(Len(s) + 1) : Ch(s, j) \notin chars})

\* str.lstrip(), str.rstrip(), str.strip()
LStrip(s) == From(s, SkipSpaces(s, 1))

RStrip(s) == Between(s, 1, Last({j \in 1..Len(s) : ~IsSpace(Ch(s, j))}) + 1)

Strip(s) == RStrip(LStrip(s))

\* the literal p stands in s at position i
At(s, i, p) == i >= 1 /\ i + Len(p) - 1 <= Len(s) /\ SubSeq(s, i, i + Len(p) - 1) = p

\* the literal p stands in s at position i, letter case ignored (re.IGNORECASE)
AtIC(s, i, p) == i >= 1 /\ i + Len(p) - 1 <= Len(s) /\ Lower(SubSeq(s, i, i + Len(p) - 1)) = Lower(p)

\* p in s
Contains(s, p) == \E i \in 1..(Len(s) + 1) : At(s, i, p)

\* \b of Python's re between the characters i-1 and i of s
WordBoundary(s, i) == IsWordChar(Ch(s, i - 1)) # IsWordChar(Ch(s, i))

\* \bword\b, letter case ignored, at position i
KeywordAt(s, i, word) == AtIC(s, i, word) /\ WordBoundary(s, i) /\ WordBoundary(s, i + Len(word))

\* re.search(r"\b" + re.escape(word) + r"\b", s) finds a match
SearchWord(word, s) ==
    \E i \in 1..(Len(s) + 1) : At(s, i, word) /\ WordBoundary(s, i) /\ WordBoundary(s, i + Len(word))

\* The pieces of a pattern.  Each takes the position i where the piece has to start,
\* 0 when the match has failed before it, and gives the position after the piece,
\* 0 when the piece does not match: a literal, a literal with letter case ignored, an
\* optional literal, \s*, \s+ and [chars]+.
Lit(s, i, p) == IF i # 0 /\ At(s, i, p) THEN i + Len(p) ELSE 0

LitIC(s, i, p) == IF i # 0 /\ AtIC(s, i, p) THEN i + Len(p) ELSE 0

Opt(s, i, p) == IF i # 0 /\ At(s, i, p) THEN i + Len(p) ELSE i

Spaces(s, i) == IF i # 0 THEN SkipSpaces(s, i) ELSE 0

Spaces1(s, i) == IF i # 0 /\ IsSpace(Ch(s, i)) THEN SkipSpaces(s, i) ELSE 0

Run1(s, i, chars) == IF i # 0 /\ Ch(s, i) \in chars THEN RunEnd(s, i, chars) ELSE 0

\* the position of the first quote at or after i, 0 when there is none or i is 0
NextQuote(s, i) == IF i = 0 THEN 0 ELSE First({q \in i..Len(s) : Ch(s, q) = "'"})

(***************************************************************************)
(* Python values, tagged with their type                                   *)
(***************************************************************************)
None == [t |-> "none"]

PyStr(s) == [t |-> "str", s |-> s]

PyBool(b) == [t |-> "bool", b |-> b]

PyInt(n) == [t |-> "int", n |-> n]

PyList(items) == [t |-> "list", items |-> items]

\* a datetime.date
PyDate(y, m, d) == [t |-> "date", y |-> y, m |-> m, d |-> d]

\* bool(v)
Truthy(v) ==
    CASE v.t = "none" -> FALSE
      [] v.t = "str" -> v.s # ""
      [] v.t = "bool" -> v.b
      [] v.t = "list" -> v.items # <<>>
      [] v.t = "int" -> v.n # 0
      [] OTHER -> TRUE

\* a or b
OrElse(a, b) == IF Truthy(a) THEN a ELSE b

\* the text of the positions <<first, last>> of a group, None for <<0, 0>>
GroupText(s, g) == IF g = <<0, 0>> THEN None ELSE PyStr(SubSeq(s, g[1], g[2]))

(***************************************************************************)
(* Intent classifier: QueryAgent._detect_smalltalk                         *)
(***************************************************************************)
greetings == {"hi", "hello", "hey", "good morning", "good afternoon", "good evening", "hola"}
gratitude == {"thanks", "thank you", "appreciate", "great job", "cool", "awesome"}
wellbeing == {"how are you", "how's it going", "how are things", "how are you doing"}
help_queries ==
    {"help", "what can you do", "who are you", "what is this", "what do you do",
     "capabilities", "features", "function", "what is your purpose"}

GreetingResponse == "Hello there! I'm your analytics assistant. Ask me about import trends, totals, or comparisons."
WellbeingResponse == "I'm doing great - thanks for asking! How can I help you explore your import data today?"
GratitudeResponse == "You're welcome! Happy to help anytime."
HelpResponse ==
    "I am an AI Data Agent designed to analyze your Import/Export data.<br><br>"
    \o "I can help you with:<br>"
    \o "- **Data Retrieval:** 'Show me full export data for Zinc.'<br>"
    \o "- **Analysis:** 'Who are the top 5 importers?'<br>"
    \o "- **Comparison:** 'Compare air vs sea shipments.'"

MatchesAny(words, query) == \E word \in words : SearchWord(word, query)

\* A faulty variant of SmalltalkFor: only the greetings are checked.
SmalltalkGreetingsOnly(query) == IF MatchesAny(greetings, query) THEN PyStr(GreetingResponse) ELSE None

\* A faulty variant of SmalltalkFor: the help phrases are checked before the others.
SmalltalkHelpFirst(query) ==
    IF MatchesAny(help_queries, query) THEN PyStr(HelpResponse)
    ELSE IF MatchesAny(greetings, query) THEN PyStr(GreetingResponse)
    ELSE IF MatchesAny(wellbeing, query) THEN PyStr(WellbeingResponse)
    ELSE IF MatchesAny(gratitude, query) THEN PyStr(GratitudeResponse)
    ELSE None

\* the category checks, in the order of the code
SmalltalkFor(query) ==
    IF MatchesAny(greetings, query) THEN PyStr(GreetingResponse)
    ELSE IF MatchesAny(wellbeing, query) THEN PyStr(WellbeingResponse)
    ELSE IF MatchesAny(gratitude, query) THEN PyStr(GratitudeResponse)
    ELSE IF MatchesAny(help_queries, query) THEN PyStr(HelpResponse)
    ELSE None

DetectSmalltalk(user_query) == SmalltalkFor(Lower(Strip(user_query)))

(***************************************************************************)
(* Completion parser: QueryAgent._clean_llm_response, and json.loads on    *)
(* the flat objects the prompt asks for                                    *)
(***************************************************************************)
\* The markdown code fence, three backquotes in the source's pattern.  The backquote
\* cannot be written in a string of this language; the tilde stands in for it.
FENCE == "~~~"

\* the positions <<j, k>> of a group that starts at j and ends at k, <<0, 0>> without k
Group(j, k) == IF k = 0 THEN <<0, 0>> ELSE <<j, k>>

\* (\{.*?\})\s*FENCE from position j: the positions of group 1
FencedFrom(s, j) ==
    Group(j, IF Ch(s, j) = "{"
             THEN First({k \in (j + 1)..Len(s) : Ch(s, k) = "}" /\ At(s, SkipSpaces(s, k + 1), FENCE)})
             ELSE 0)

\* FENCE json \s* (\{.*?\}) \s* FENCE with the opening fence at i: the positions of group 1
FencedAt(s, i) == FencedFrom(s, Spaces(s, LitIC(s, i, FENCE \o "json")))

\* (\{.*?\}) from position j: the positions of group 1
BracedAt(s, j) ==
    Group(j, IF Ch(s, j) = "{" THEN First({k \in (j + 1)..Len(s) : Ch(s, k) = "}"}) ELSE 0)

CleanLlmResponse(response_text) ==
    OrElse(GroupText(response_text,
                     FencedAt(response_text,
                              First({i \in 1..Len(response_text) : FencedAt(response_text, i) # <<0, 0>>}))),
           GroupText(response_text,
                     BracedAt(response_text,
                              First({j \in 1..Len(response_text) : BracedAt(response_text, j) # <<0, 0>>}))))

JsonFail == [ok |-> FALSE]

RECURSIVE JsonStringBody(_, _, _)
\* the string continues after the backslash at position p with the escaped character e
JsonEscape(s, p, run, e) ==
    IF e \in {"\"", "\\", "/"} THEN JsonStringBody(s, p + 2, run \o e)
    ELSE IF e = "n" THEN JsonStringBody(s, p + 2, run \o "\n")
    ELSE IF e = "t" THEN JsonStringBody(s, p + 2, run \o "\t")
    ELSE IF e = "r" THEN JsonStringBody(s, p + 2, run \o "\r")
    ELSE JsonFail

\* the string at its next quote, backslash or control character c, at position p
JsonStringAt(s, p, c, run) ==
    IF c = "" \/ c \in {"\n", "\t", "\r"} THEN JsonFail
    ELSE IF c = "\"" THEN [ok |-> TRUE, v |-> run, next |-> p + 1]
    ELSE JsonEscape(s, p, run, Ch(s, p + 1))

JsonStringRun(s, i, acc, p) ==
    IF p = 0 THEN JsonFail ELSE JsonStringAt(s, p, Ch(s, p), acc \o Between(s, i, p))

\* the characters of a JSON string from position i (after the opening quote)
JsonStringBody(s, i, acc) ==
    JsonStringRun(s, i, acc, First({p \in i..Len(s) : Ch(s, p) \in {"\"", "\\", "\n", "\t", "\r"}}))

RECURSIVE JsonDigits(_, _, _)
JsonDigits(s, i, acc) ==
    IF Ch(s, i) \in DigitChars
    THEN JsonDigits(s, i + 1, 10 * acc + (IndexIn(DIGITS, Ch(s, i)) - 1))
    ELSE [ok |-> TRUE, v |-> PyInt(acc), next |-> i]

JsonString(r) == IF r.ok THEN [ok |-> TRUE, v |-> PyStr(r.v), next |-> r.next] ELSE JsonFail

\* a JSON scalar at position i
JsonValue(s, i) ==
    IF Ch(s, i) = "\"" THEN JsonString(JsonStringBody(s, i + 1, ""))
    ELSE IF At(s, i, "true") THEN [ok |-> TRUE, v |-> PyBool(TRUE), next |-> i + 4]
    ELSE IF At(s, i, "false") THEN [ok |-> TRUE, v |-> PyBool(FALSE), next |-> i + 5]
    ELSE IF At(s, i, "null") THEN [ok |-> TRUE, v |-> None, next |-> i + 4]
    ELSE IF Ch(s, i) \in DigitChars /\ (Ch(s, i) # "0" \/ Ch(s, i + 1) \notin DigitChars)
    THEN JsonDigits(s, i, 0)
    ELSE JsonFail

RECURSIVE JsonMembers(_, _, _)
\* after a member, at position d: the end of the object, or a comma and the next member
JsonMemberEnd(s, pairs, d) ==
    IF Ch(s, d) = "}" /\ SkipSpaces(s, d + 1) = Len(s) + 1 THEN [ok |-> TRUE, obj |-> pairs]
    ELSE IF Ch(s, d) = "," THEN JsonMembers(s, SkipSpaces(s, d + 1), pairs)
    ELSE JsonFail

JsonMemberValue(s, acc, key, v) ==
    IF v.ok THEN JsonMemberEnd(s, Append(acc, <<key, v.v>>), SkipSpaces(s, v.next)) ELSE JsonFail

\* the colon at position c and the value after it
JsonColonValue(s, c) == IF Ch(s, c) = ":" THEN JsonValue(s, SkipSpaces(s, c + 1)) ELSE JsonFail

JsonMemberKey(s, acc, k) ==
    IF k.ok THEN JsonMemberValue(s, acc, k.v, JsonColonValue(s, SkipSpaces(s, k.next))) ELSE JsonFail

\* the members of a JSON object from position i (at a key), as <<key, value>> pairs
JsonMembers(s, i, acc) ==
    JsonMemberKey(s, acc, IF Ch(s, i) = "\"" THEN JsonStringBody(s, i + 1, "") ELSE JsonFail)

\* the object whose brace stands at position i, its first member or closing brace at j
JsonObject(text, i, j) ==
    IF Ch(text, i) # "{" THEN JsonFail
    ELSE IF Ch(text, j) = "}" /\ SkipSpaces(text, j + 1) = Len(text) + 1 THEN [ok |-> TRUE, obj |-> <<>>]
    ELSE JsonMembers(text, j, <<>>)

\* json.loads(text): [ok |-> FALSE] stands for JSONDecodeError
JsonLoads(text) == JsonObject(text, SkipSpaces(text, 1), SkipSpaces(text, SkipSpaces(text, 1) + 1))

\* the last index of key in the pairs of obj, 0 when it is absent
KeyIndex(obj, key) == Last({i \in 1..Len(obj) : obj[i][1] = key})

\* dict.get(key, default); a repeated key keeps its last value
DictGet(obj, key, default) == IF KeyIndex(obj, key) = 0 THEN default ELSE obj[KeyIndex(obj, key)][2]

(***************************************************************************)
(* SQL normalizer: QueryAgent._fix_product_column_in_sql                   *)
(***************************************************************************)
RECURSIVE RemoveSpaces(_)
\* str.replace(' ', '')
RemoveSpaces(s) ==
    IF s = "" \/ s = " " THEN "" ELSE IF Len(s) = 1 THEN s
    ELSE RemoveSpaces(SubSeq(s, 1, Len(s) \div 2)) \o RemoveSpaces(SubSeq(s, Len(s) \div 2 + 1, Len(s)))

NoMatch == [ok |-> FALSE]

\* ([^']+)%' with group 1 from position v and the quote at q
LikeCapture(s, v, q) ==
    IF q # 0 /\ q - 2 >= v /\ Ch(s, q - 1) = "%"
    THEN [ok |-> TRUE, value |-> SubSeq(s, v, q - 2), last |-> q]
    ELSE NoMatch

LikeValue(s, v) == LikeCapture(s, v, NextQuote(s, v))

\* \[?name\]?\s+LIKE\s+'%([^']+)%' at position i
ProductLikeTry(s, i, name) ==
    LikeValue(s, Lit(s, Spaces1(s, LitIC(s, Spaces1(s, Opt(s, LitIC(s, Opt(s, i, "["), name), "]")), "LIKE")), "'%"))

\* the first of two matches that matched
FirstOk(a, b) == IF a.ok THEN a ELSE b

\* (?:\[?Product\]?|\[?Product_Name\]?)\s+LIKE\s+'%([^']+)%' at position i:
\* [ok, value (group 1), last position of the match]
ProductLikeAt(s, i) ==
    IF i = 0 THEN NoMatch ELSE FirstOk(ProductLikeTry(s, i, "Product"), ProductLikeTry(s, i, "Product_Name"))

\* A faulty variant of normalize_product_value: the wildcards are taken into the value.
normalize_with_wildcards(product_value) ==
    "[Product] LIKE '%%" \o Upper(RemoveSpaces(product_value)) \o "%%'"

normalize_product_value(product_value) ==
    "[Product] LIKE '%" \o Upper(RemoveSpaces(product_value)) \o "%'"

RECURSIVE SubProductLike(_, _)
SubProductLikeMatch(s, i, p, m) ==
    Between(s, i, p) \o normalize_product_value(m.value) \o SubProductLike(s, m.last + 1)

SubProductLikeAt(s, i, p) == IF p = 0 THEN From(s, i) ELSE SubProductLikeMatch(s, i, p, ProductLikeAt(s, p))

\* re.sub of the pattern above with normalize_product_value, from position i on
SubProductLike(s, i) == SubProductLikeAt(s, i, First({p \in i..Len(s) : ProductLikeAt(s, p).ok}))

process_where_content(where_content) == SubProductLike(where_content, 1)

\* the lookahead (?=\bGROUP BY\b|\bORDER BY\b|\bHAVING\b|$) at position e
WhereTerminatorAt(s, e) ==
    \/ KeywordAt(s, e, "GROUP BY")
    \/ KeywordAt(s, e, "ORDER BY")
    \/ KeywordAt(s, e, "HAVING")
    \/ e = Len(s) + 1
    \/ (e = Len(s) /\ Ch(s, e) = "\n")

\* the substitution of the span of the WHERE keyword at w that ends before e
FixWhereSpan(s, w, e) == SubSeq(s, 1, w + 4) \o process_where_content(Between(s, w + 5, e)) \o From(s, e)

\* A faulty variant of FixWhereAt: the span ends at a UNION too, so that it holds the
\* predicates of one WHERE clause only.
FixWhereToUnion(s, w) ==
    IF w = 0 THEN s
    ELSE FixWhereSpan(s, w, Min({e \in (w + 5)..(Len(s) + 1) : WhereTerminatorAt(s, e) \/ KeywordAt(s, e, "UNION")}))

FixWhereAt(s, w) ==
    IF w = 0 THEN s ELSE FixWhereSpan(s, w, Min({e \in (w + 5)..(Len(s) + 1) : WhereTerminatorAt(s, e)}))

\* A faulty variant of FixProductColumnInSql: the predicates are rewritten in the whole text.
FixEverywhere(sql_query) == process_where_content(sql_query)

\* re.sub of where_clause_regex, count=1: the span of the first WHERE
FixProductColumnInSql(sql_query) ==
    FixWhereAt(sql_query, First({w \in 1..Len(sql_query) : KeywordAt(sql_query, w, "WHERE")}))

(***************************************************************************)
(* Summary-query deriver: QueryAgent._generate_summary_query               *)
(***************************************************************************)
\* .*?\)\s*(SELECT) from the keyword WITH at w: the position of group 1, 0 without a match
SelectAfterParen(s, p) == IF p = 0 THEN 0 ELSE SkipSpaces(s, p + 1)

CteSelectAfter(s, w) ==
    SelectAfterParen(s, First({p \in (w + 4)..Len(s) : Ch(s, p) = ")" /\ AtIC(s, SkipSpaces(s, p + 1), "SELECT")}))

CteSelectFrom(s, w) == IF w = 0 THEN 0 ELSE CteSelectAfter(s, w)

\* \bWITH\b.*?\)\s*(SELECT): the position of group 1, 0 when there is no match
CteMainSelect(s) ==
    CteSelectFrom(s, First({w \in 1..Len(s) : KeywordAt(s, w, "WITH") /\ CteSelectAfter(s, w) # 0}))

\* (\w+) from position i, None when no word stands there
WordTo(s, i, e) == IF e = 0 THEN None ELSE PyStr(SubSeq(s, i, e - 1))

WordAt(s, i) == WordTo(s, i, Run1(s, i, WordChars))

\* (?:(?:\s+as\s+|\s+)(\w+))? after the \s+ that ends before position a: group 2
AliasAfter(s, a) == OrElse(WordAt(s, Spaces1(s, LitIC(s, a, "as"))), WordAt(s, a))

TableAlias(s, t, te) ==
    IF te = 0 THEN NoMatch
    ELSE [ok |-> TRUE, table_name |-> SubSeq(s, t, te - 1), table_alias |-> AliasAfter(s, Spaces1(s, te))]

TableName(s, t) == TableAlias(s, t, Run1(s, t, WordChars \cup {"."}))

\* FROM\s+([\w\.]+)(?:(?:\s+as\s+|\s+)(\w+))? at position f:
\* [ok, table_name, table_alias (None when group 2 did not take part)]
TableMatchAt(s, f) == TableName(s, Spaces1(s, LitIC(s, f, "FROM")))

\* the first match of the table pattern in s, [ok |-> FALSE] when there is none
TableMatch(s) == TableMatchAt(s, First({f \in 1..Len(s) : TableMatchAt(s, f).ok}))

\* (?:GROUP BY|ORDER BY|UNION|$) at position e
WhereEndsAt(s, e) ==
    \/ AtIC(s, e, "GROUP BY") \/ AtIC(s, e, "ORDER BY") \/ AtIC(s, e, "UNION")
    \/ e = Len(s) + 1
    \/ (e = Len(s) /\ Ch(s, e) = "\n")

\* the position after group 1 for the keyword WHERE at w, 0 without a match
WhereEnd(s, w) == First({e \in (w + 7)..(Len(s) + 1) : WhereEndsAt(s, e)})

WhereGroup(s, w) == IF w = 0 THEN None ELSE PyStr(Between(s, w, WhereEnd(s, w)))

\* (WHERE\s+.+?)(?:GROUP BY|ORDER BY|UNION|$): group 1, None when there is no match
WhereMatch(s) ==
    WhereGroup(s, First({w \in 1..Len(s) : AtIC(s, w, "WHERE") /\ IsSpace(Ch(s, w + 5)) /\ WhereEnd(s, w) # 0}))

\* the positions of sargable_pattern_gte for a match that starts at i, each 0 when the
\* match fails before it: group 1 and its end, group 2 and its end, group 3
SargCol(s, i) == LitIC(s, i, "YEAR(")

SargColEnd(s, i) == Run1(s, SargCol(s, i), WordChars \cup {"."})

SargOp(s, i) == Spaces(s, Lit(s, SargColEnd(s, i), ")"))

SargOpEnd(s, i) == Run1(s, SargOp(s, i), {">", "="})

SargYear(s, i) == Spaces(s, SargOpEnd(s, i))

\* [-+]\s* at position p
SignAfter(s, p) == IF p # 0 /\ Ch(s, p) \in {"-", "+"} THEN SkipSpaces(s, p + 1) ELSE 0

\* YEAR(GETDATE()) ended before g: the end with the offset \s*[-+]\s*\d+ when it follows
GetdateEndFrom(g, de) == IF de # 0 THEN de ELSE g

GetdateEnd(s, g) == GetdateEndFrom(g, Run1(s, SignAfter(s, Spaces(s, g)), DigitChars))

\* \d{4} at position y
FourDigits(s, y) == IF y # 0 /\ RunEnd(s, y, DigitChars) >= y + 4 THEN y + 4 ELSE 0

FirstPosition(a, b) == IF a # 0 THEN a ELSE b

\* the position after group 3, which starts at y
SargYearEnd(s, y) == FirstPosition(GetdateEnd(s, LitIC(s, y, "YEAR(GETDATE())")), FourDigits(s, y))

SargableGroups(s, c, ce, o, oe, y, ye) ==
    IF ye = 0 THEN NoMatch
    ELSE [ok |-> TRUE, col |-> Between(s, c, ce), op |-> Between(s, o, oe),
          year_func |-> Between(s, y, ye), last |-> ye - 1]

\* sargable_pattern_gte at position i: [ok, col, op, year_func, last position of the match]
SargableAt(s, i) ==
    IF i = 0 THEN NoMatch
    ELSE SargableGroups(s, SargCol(s, i), SargColEnd(s, i), SargOp(s, i), SargOpEnd(s, i), SargYear(s, i),
                        SargYearEnd(s, SargYear(s, i)))

optimize_date_sargable(m) ==
    " " \o m.col \o " " \o m.op \o " DATEFROMPARTS(" \o m.year_func \o ", 1, 1) "

RECURSIVE SubSargable(_, _)
SubSargableMatch(s, i, p, m) == Between(s, i, p) \o optimize_date_sargable(m) \o SubSargable(s, m.last + 1)

SubSargableAt(s, i, p) == IF p = 0 THEN From(s, i) ELSE SubSargableMatch(s, i, p, SargableAt(s, p))

\* re.sub(sargable_pattern_gte, optimize_date_sargable, where_clause), from position i on
SubSargable(s, i) == SubSargableAt(s, i, First({p \in i..Len(s) : SargableAt(s, p).ok}))

RECURSIVE StripAlias(_, _, _)
StripAliasAt(s, i, alias, p) ==
    IF p = 0 THEN From(s, i) ELSE Between(s, i, p) \o StripAlias(s, p + Len(alias) + 1, alias)

\* re.sub(r'\b' + re.escape(table_alias) + r'\.', '', where_clause, flags=re.IGNORECASE)
StripAlias(s, i, alias) ==
    StripAliasAt(s, i, alias, First({p \in i..Len(s) : AtIC(s, p, alias \o ".") /\ WordBoundary(s, p)}))

\* the last position of a group that ended before ne, the closing bracket included
ColClose(s, ne) == IF ne = 0 THEN 0 ELSE IF Ch(s, ne) = "]" THEN ne ELSE ne - 1

\* (\[?[\w\/\s]+\]?) from position b: its last position, 0 when it does not match
ColEnd(s, b) == ColClose(s, Run1(s, Opt(s, b, "["), WordChars \cup SpaceChars \cup {"/"}))

GroupTailFrom(s, p, d) == IF d # 0 THEN Group(d + 1, ColEnd(s, d + 1)) ELSE Group(p, ColEnd(s, p))

\* (?:[\w\.]+\.)?(\[?[\w\/\s]+\]?) from position p: the positions of group 1; the
\* greedy prefix ends at its last dot that lets the group match
GroupTail(s, p) ==
    GroupTailFrom(s, p, Last({d \in (p + 1)..(RunEnd(s, p, WordChars \cup {"."}) - 1) :
                                  Ch(s, d) = "." /\ ColEnd(s, d + 1) # 0}))

GroupTailAt(s, p) == IF p = 0 THEN <<0, 0>> ELSE GroupTail(s, p)

\* GROUP BY at g; the greedy \s+ gives back whitespace until the tail matches
GroupByAt(s, g) ==
    GroupTailAt(s, Last(IF AtIC(s, g, "GROUP BY")
                        THEN {p \in (g + 9)..Spaces1(s, g + 8) : GroupTail(s, p) # <<0, 0>>}
                        ELSE {}))

\* GROUP BY\s+(?:[\w\.]+\.)?(\[?[\w\/\s]+\]?): group 1, None when there is no match
GroupByMatch(s) == GroupText(s, GroupByAt(s, First({g \in 1..Len(s) : GroupByAt(s, g) # <<0, 0>>})))

\* the f-string of the summary query, after its .strip()
SummaryTemplate(name_col, entity_name, table_name, where_clause, date_col) ==
    "WITH TopEntity AS (\n"
    \o "            SELECT TOP 1\n"
    \o "                " \o name_col \o ",\n"
    \o "                SUM(Total_Value_INR) AS TopEntityValue\n"
    \o "            FROM " \o table_name \o "\n"
    \o "            " \o where_clause \o "\n"
    \o "            GROUP BY " \o name_col \o "\n"
    \o "            ORDER BY TopEntityValue DESC\n"
    \o "        ),\n"
    \o "        Aggregates AS (\n"
    \o "            SELECT\n"
    \o "                COUNT(*) as TotalRecords,\n"
    \o "                COUNT(DISTINCT " \o name_col \o ") as Total" \o entity_name \o "s,\n"
    \o "                SUM(Total_Value_INR) as TotalValue_INR,\n"
    \o "                SUM(QUANTITY_KG) as TotalQuantity_KG,\n"
    \o "                SUM(Total_Value_INR) / NULLIF(SUM(QUANTITY_KG), 0) as WeightedAvgPrice_INR,\n"
    \o "                MAX(Total_Value_INR) as MaxShipmentValue,\n"
    \o "                MIN(" \o date_col \o ") as EarliestDate,\n"
    \o "                MAX(" \o date_col \o ") as LatestDate,\n"
    \o "                COUNT(DISTINCT CAST(" \o date_col \o " AS DATE)) as UniqueDates\n"
    \o "            FROM " \o table_name \o "\n"
    \o "            " \o where_clause \o "\n"
    \o "        )\n"
    \o "        SELECT\n"
    \o "            a.*, -- All aggregates\n"
    \o "            t." \o name_col \o " as Top" \o entity_name \o ",\n"
    \o "            t.TopEntityValue as Top" \o entity_name \o "Value\n"
    \o "        FROM Aggregates a\n"
    \o "        CROSS JOIN TopEntity t"

\* where_match.group(1).strip() if where_match else ""
WhereText(where_match) == IF where_match = None THEN "" ELSE Strip(where_match.s)

\* if where_clause.endswith(';'): where_clause = where_clause[:-1].strip()
DropSemicolon(where_clause) ==
    IF where_clause # "" /\ Ch(where_clause, Len(where_clause)) = ";"
    THEN Strip(SubSeq(where_clause, 1, Len(where_clause) - 1)) ELSE where_clause

\* if table_alias: the alias prefix is removed from the clause
WithoutAlias(where_clause, table_alias) ==
    IF where_clause # "" /\ Truthy(table_alias) THEN StripAlias(where_clause, 1, table_alias.s)
    ELSE where_clause

\* the WHERE clause the summary query filters by: extracted, stripped of a trailing
\* semicolon, its YEAR() comparisons rewritten and the table alias removed
SummaryWhereClause(query_to_search, table_alias) ==
    WithoutAlias(SubSargable(DropSemicolon(WhereText(WhereMatch(query_to_search))), 1), table_alias)

\* if table_alias and table_alias.upper() in [...]: table_alias = None
UsableAlias(table_alias) ==
    IF Truthy(table_alias) /\ Upper(table_alias.s) \in {"WHERE", "GROUP", "ORDER", "HAVING"}
    THEN None ELSE table_alias

\* group_by_match.group(1).lower(), "" without a GROUP BY
GroupByColumn(group_by_match) == IF group_by_match = None THEN "" ELSE Lower(group_by_match.s)

NameCol(group_by_col) ==
    IF Contains(group_by_col, "product") THEN "Product_Name"
    ELSE IF Contains(group_by_col, "formatted") THEN "[Formatted_Name]"
    ELSE "[Importer/Exporter_Name]"

EntityName(group_by_col) == IF Contains(group_by_col, "product") THEN "Product" ELSE "Company"

DateCol(table_name) == IF Contains(Lower(table_name), "import") THEN "BE_Date" ELSE "SB_Date"

SummaryText(table_name, where_clause, group_by_col) ==
    SummaryTemplate(NameCol(group_by_col), EntityName(group_by_col), table_name, where_clause, DateCol(table_name))

SummaryFor(query_to_search, table_match) ==
    IF ~table_match.ok THEN None
    ELSE PyStr(SummaryText(table_match.table_name,
                           SummaryWhereClause(query_to_search, UsableAlias(table_match.table_alias)),
                           GroupByColumn(GroupByMatch(query_to_search))))

\* the text the patterns search: the main SELECT of a query that starts with a CTE
QueryToSearch(original_query, main_select_start) ==
    IF main_select_start # 0 THEN From(original_query, main_select_start) ELSE original_query

SummaryOver(query_to_search) == SummaryFor(query_to_search, TableMatch(query_to_search))

\* A faulty variant of GenerateSummaryQuery: without a FROM clause it counts the rows
\* of the query itself.
SummaryAlways(original_query) ==
    OrElse(SummaryOver(QueryToSearch(original_query, CteMainSelect(original_query))),
           PyStr("SELECT COUNT(*) AS TotalRecords FROM (" \o original_query \o ") AS q"))

\* None when no FROM clause is found, else the text of the summary query
GenerateSummaryQuery(original_query) == SummaryOver(QueryToSearch(original_query, CteMainSelect(original_query)))

(***************************************************************************)
(* Execution engine: the repair of try_execute_sql and the row formatting  *)
(* of QueryAgent.ask                                                       *)
(***************************************************************************)
\* ([^']+)' with group 2 from position v and the quote at q
NameCapture(s, name, v, q) ==
    IF q > v THEN [ok |-> TRUE, name |-> name, value |-> SubSeq(s, v, q - 1), last |-> q] ELSE NoMatch

NameValue(s, name, v) == NameCapture(s, name, v, NextQuote(s, v))

\* name\s*=\s*'([^']+)' at position i
NameEqualsTry(s, i, name) == NameValue(s, name, Lit(s, Spaces(s, Lit(s, Spaces(s, Lit(s, i, name)), "=")), "'"))

\* (Importer_Name|Exporter_Name|Product_Name)\s*=\s*'([^']+)' at position i:
\* [ok, name (group 1), value (group 2), last position of the match]
NameEqualsAt(s, i) ==
    FirstOk(NameEqualsTry(s, i, "Importer_Name"),
            FirstOk(NameEqualsTry(s, i, "Exporter_Name"), NameEqualsTry(s, i, "Product_Name")))

RECURSIVE SubNameEquals(_, _)
SubNameEqualsMatch(s, i, p, m) ==
    Between(s, i, p) \o m.name \o " LIKE '%" \o m.value \o "%'" \o SubNameEquals(s, m.last + 1)

SubNameEqualsAt(s, i, p) == IF p = 0 THEN From(s, i) ELSE SubNameEqualsMatch(s, i, p, NameEqualsAt(s, p))

\* re.sub of the pattern above with r"\1 LIKE '%\2%'", from position i on
SubNameEquals(s, i) == SubNameEqualsAt(s, i, First({p \in i..Len(s) : NameEqualsAt(s, p).ok}))

\* A faulty variant of QueryLike: re.sub with count=1.
QueryLikeFirst(query, p) ==
    IF p = 0 THEN query
    ELSE Between(query, 1, p) \o NameEqualsAt(query, p).name \o " LIKE '%" \o NameEqualsAt(query, p).value \o "%'"
         \o From(query, NameEqualsAt(query, p).last + 1)

QueryLikeOnce(query) == QueryLikeFirst(query, First({p \in 1..Len(query) : NameEqualsAt(query, p).ok}))

\* query_like of try_execute_sql
QueryLike(query) == SubNameEquals(query, 1)

\* the test of try_execute_sql on str(e)
IsRepairable(message) == Contains(message, "Invalid column") \/ Contains(message, "Syntax")

RECURSIVE IntToStr(_)
\* str(n) for n >= 0
IntToStr(n) == IF n < 10 THEN Ch(DIGITS, n + 1) ELSE IntToStr(n \div 10) \o Ch(DIGITS, (n % 10) + 1)

Pad3(n) == IF n < 10 THEN "00" \o IntToStr(n) ELSE IF n < 100 THEN "0" \o IntToStr(n) ELSE IntToStr(n)

RECURSIVE Thousands(_)
\* f"{n:,}" for n >= 0
Thousands(n) == IF n < 1000 THEN IntToStr(n) ELSE Thousands(n \div 1000) \o "," \o Pad3(n % 1000)

RECURSIVE StrToInt(_, _)
StrToInt(s, acc) == IF s = "" THEN acc ELSE StrToInt(Tail(s), 10 * acc + (IndexIn(DIGITS, Head(s)) - 1))

MonthAbbr == <<"Jan", "Feb", "Mar", "Apr", "May", "Jun", "Jul", "Aug", "Sep", "Oct", "Nov", "Dec">>

\* val.strftime('%d-%b-%Y'), for a four-digit year
Strftime(val) == (IF val.d < 10 THEN "0" ELSE "") \o IntToStr(val.d) \o "-" \o MonthAbbr[val.m] \o "-" \o IntToStr(val.y)

\* str(v)
Str(v) ==
    CASE v.t = "str" -> v.s
      [] v.t = "none" -> "None"
      [] v.t = "bool" -> (IF v.b THEN "True" ELSE "False")
      [] v.t = "int" -> IntToStr(v.n)
      [] v.t = "date" -> IntToStr(v.y) \o "-" \o (IF v.m < 10 THEN "0" ELSE "") \o IntToStr(v.m)
                         \o "-" \o (IF v.d < 10 THEN "0" ELSE "") \o IntToStr(v.d)

\* f"{float(val):.0f}", with str(val) where float(val) raises ValueError.  The values
\* of these columns are integers or text here: text of digits alone converts.
ZeroDecimal(val) ==
    IF val.t = "int" THEN IntToStr(val.n)
    ELSE IF val.t = "str" /\ val.s # "" /\ CharsOf(val.s) \subseteq DigitChars THEN IntToStr(StrToInt(val.s, 0))
    ELSE Str(val)

\* one cell of formatted_rows
FormatValue(col_name, val) ==
    IF val.t = "date" THEN PyStr(Strftime(val))
    ELSE IF col_name \in {"BE_Number", "SB_Number"} /\ val # None THEN PyStr(ZeroDecimal(val))
    ELSE val

\* new_row_dict: the <<column, value>> pairs of one row
FormatRow(column_names, row) == [i \in 1..Len(row) |-> <<column_names[i], FormatValue(column_names[i], row[i])>>]

(***************************************************************************)
(* Result sets.  A fetched result is a sequence of runs, [row, times]: the *)
(* row repeated times (>= 1) times, so that a result of more than 10,000   *)
(* rows is a value of the model.                                           *)
(***************************************************************************)
RECURSIVE RowCount(_)
\* len(rows)
RowCount(rows) == IF rows = <<>> THEN 0 ELSE Head(rows).times + RowCount(Tail(rows))

FormatRows(column_names, rows) ==
    [i \in 1..Len(rows) |-> [row |-> FormatRow(column_names, rows[i].row), times |-> rows[i].times]]

(***************************************************************************)
(* The response envelopes of QueryAgent.ask                                *)
(***************************************************************************)
MsgEmptyCompletion == "I'm sorry, I couldn't process that question right now. Please try rephrasing it."
MsgNoText == "I couldn't generate a response for that question. Please try again."
MsgTemporaryIssue == "I'm sorry, I ran into a temporary issue while processing your question."
MsgNoSql == "I'm sorry, I couldn't generate a SQL query for that."
MsgSqlError == "I couldn't run the generated SQL query correctly. Please rephrase your question or try again."
MsgGeneric ==
    "I'm sorry, I encountered a temporary issue while generating that insight. Please try rephrasing your question."

SmalltalkEnvelope(smalltalk_response) ==
    [answer |-> smalltalk_response, data |-> <<>>, query |-> PyStr(""), query_type |-> PyStr("analytical"),
     chart_title |-> PyStr(""), is_time_series |-> PyBool(FALSE)]

\* the three-field dictionary of the early returns
ShortEnvelope(answer, query) == [answer |-> PyStr(answer), data |-> <<>>, query |-> query]

\* except Exception as inner_e (the try around the access to the completion)
InnerExcept(message) == ShortEnvelope(MsgTemporaryIssue, PyStr(""))

\* A faulty variant of SqlExcept: the attempted query is left out, as in the other
\* except clauses.
SqlExceptNoQuery(message, sql_query) == ShortEnvelope(MsgSqlError, PyStr(""))

\* except Exception as sql_error (the try inside the connection scope)
SqlExcept(message, sql_query) == ShortEnvelope(MsgSqlError, sql_query)

\* A faulty variant of OuterExcept: the answer shows the exception.
OuterExceptLeaking(message) == ShortEnvelope("Error: " \o message, PyStr(""))

\* except Exception as e (the try around the whole pipeline)
OuterExcept(message) == ShortEnvelope(MsgGeneric, PyStr(""))

(***************************************************************************)
(* Inputs of a request: the user's text and history, and what the          *)
(* completion capability and the database answer                           *)
(***************************************************************************)
UserQueries ==
    {"  Hi there ", "thanks, how are you", "Cool, THANK YOU", "What can you do?", "history of zinc imports"}

Histories == {<<[role |-> "user", content |-> "top importers"], [role |-> "agent", content |-> "Here they are."]>>}

RECURSIVE FormatHistory(_)
FormatHistory(history) ==
    IF history = <<>> THEN ""
    ELSE (IF Head(history).role = "user" THEN "User" ELSE "Agent") \o ": " \o Head(history).content \o "\n"
         \o FormatHistory(Tail(history))

\* self.schema, fetched once at construction
Schema == "Table 'View_Clean_Imports':\n- Product_Name (nvarchar)\n\nTable 'View_Clean_Exports':\n- Product_Name (nvarchar)"

\* the prompt of the query synthesis: the fixed instructions around these three texts
SynthesisPrompt(user_query, history) ==
    [kind |-> "synthesis", schema |-> Schema, formatted_history |-> FormatHistory(history), user_query |-> user_query]

TextFenced ==
    "Here is the analysis.\n~~~json\n{\"sql_query\": \"SELECT TOP 15 Product_Name, SUM(Total_Value_INR) AS TotalValue FROM View_Clean_Imports WHERE Importer_Name = 'Acme' AND Product_Name LIKE '%zinc ingot%' GROUP BY Product_Name ORDER BY TotalValue DESC\", \"answer\": \"Here are the top zinc ingot products:\", \"query_type\": \"analytical\", \"is_time_series\": false, \"chart_title\": \"Top Zinc Ingot Products\"}\n~~~"

TextBare ==
    "Sure: {\"sql_query\": \"SELECT * FROM [View_Clean_Exports]\", \"answer\": \"Here is the raw data you requested.\", \"query_type\": \"data_pull\", \"is_time_series\": false, \"chart_title\": \"Full Export List\"} Let me know."

TextEquals ==
    "{\"sql_query\": \"SELECT * FROM View_Clean_Imports WHERE Importer_Name = 'Acme'\", \"answer\": \"Here are the imports of Acme:\", \"query_type\": \"data_pull\"}"

TextProse ==
    "I cannot answer that question."

TextNoSql ==
    "{\"answer\": \"I need more detail.\", \"query_type\": \"analytical\"}"

TextEmptySql ==
    "{\"sql_query\": \"\", \"answer\": \"I need more detail.\"}"

TextNested ==
    "{\"sql_query\": \"SELECT 1 AS x\", \"meta\": {\"rows\": 1}}"

TextBlank ==
    "  \n"

TextNullType ==
    "{\"sql_query\": \"SELECT 1 AS x\", \"answer\": null, \"query_type\": null}"

TextNumberSql ==
    "{\"sql_query\": 5, \"query_type\": \"analytical\"}"

TextNullFields ==
    "{\"sql_query\": null, \"answer\": \"I need more detail.\", \"query_type\": null}"

CompletionTexts ==
    {TextFenced, TextBare, TextEquals, TextProse, TextNoSql, TextEmptySql, TextNested, TextBlank,
     TextNullType, TextNumberSql, TextNullFields}

\* generate_content(prompt) raises
LlmRaise(message) == [kind |-> "raise", message |-> message, has_parts |-> FALSE, text |-> None]

\* generate_content(prompt) returns a response without candidates, or without parts
LlmEmpty == [kind |-> "response", message |-> "", has_parts |-> FALSE, text |-> None]

\* a response with parts whose .text is the given text
LlmText(text) == [kind |-> "response", message |-> "", has_parts |-> TRUE, text |-> PyStr(text)]

\* a response with parts whose .text raises ValueError
LlmTextRaises(message) == [kind |-> "response", message |-> message, has_parts |-> TRUE, text |-> None]

LlmFailures == {LlmRaise("429 Resource has been exhausted"), LlmTextRaises("Invalid operation: part is not text")}

SynthesisOutcomes == LlmFailures \cup {LlmEmpty} \cup {LlmText(t) : t \in CompletionTexts}

InsightText == "  The zinc import market shows significant activity.\n"

InsightOutcomes == LlmFailures \cup {LlmText(InsightText)}

\* Messages of the failures the database raises, by kind: SQL Server's error 207, its
\* error 156 and the text of SQLSTATE 42000, and a failure of another kind.
InvalidColumnFailures == {"Invalid column name 'Importer_Name'."}

SyntaxFailures == {"Incorrect syntax near the keyword 'FROM'.", "Syntax error or access violation"}

OtherFailures == {"Login timeout expired"}

DbErrors == InvalidColumnFailures \cup SyntaxFailures \cup OtherFailures

DbRaise(message) == [kind |-> "raise", message |-> message, keys |-> <<>>, rows |-> <<>>, fetch_ok |-> FALSE]

\* execute returns a result; fetch_ok: fetchall() returns its rows (else it raises)
DbResult(keys, rows, fetch_ok) == [kind |-> "result", message |-> "", keys |-> keys, rows |-> rows, fetch_ok |-> fetch_ok]

FetchError == "Connection is busy with results for another command"

\* if row_count > 10000
EXPORT_THRESHOLD == 10000

\* A faulty variant of ExceedsThreshold: the comparison is not strict.
AtLeastThreshold(row_count) == row_count >= EXPORT_THRESHOLD

ExceedsThreshold(row_count) == row_count > EXPORT_THRESHOLD

RowCounts == {0, EXPORT_THRESHOLD, EXPORT_THRESHOLD + 1}

PrimaryKeys == <<"Product_Name", "BE_Date", "BE_Number">>

PrimaryRow == <<PyStr("ZINC INGOT 99.9"), PyDate(2024, 3, 5), PyInt(1234567)>>

PrimaryRows(n) == IF n = 0 THEN <<>> ELSE <<[row |-> PrimaryRow, times |-> n]>>

PrimaryOutcomes ==
    {DbRaise(m) : m \in DbErrors} \cup {DbResult(PrimaryKeys, PrimaryRows(n), TRUE) : n \in RowCounts}
    \cup {DbResult(PrimaryKeys, <<>>, FALSE)}

\* the columns the summary query names
SummaryKeys(entity_name) ==
    <<"TotalRecords", "Total" \o entity_name \o "s", "TotalValue_INR", "TotalQuantity_KG", "WeightedAvgPrice_INR",
      "MaxShipmentValue", "EarliestDate", "LatestDate", "UniqueDates", "Top" \o entity_name,
      "Top" \o entity_name \o "Value">>

SummaryRow ==
    <<PyInt(3), PyInt(2), PyInt(900), PyInt(0), None, PyInt(500), PyDate(2024, 1, 2), PyDate(2024, 3, 5),
      PyInt(2), PyStr("ACME METALS"), PyInt(600)>>

\* the columns of the result of a summary query
SummaryKeysOf(summary_query) ==
    SummaryKeys(IF Contains(summary_query, "TotalProducts") THEN "Product" ELSE "Company")

\* what the database answers to a summary query; the columns are those the query names
SummaryOutcomes ==
    {DbRaise(m) : m \in DbErrors}
    \cup {DbResult(<<>>, <<[row |-> SummaryRow, times |-> 1]>>, TRUE), DbResult(<<>>, <<>>, TRUE),
          DbResult(<<>>, <<>>, FALSE)}

(***************************************************************************)
(* QueryAgent.ask, from the completion to the generated query (steps 5-7)  *)
(***************************************************************************)
\* The except clause that an exception raised at a place of ask reaches first:
\* "generate" is the first completion call, "access" the try around the reading of the
\* completion (the repeated call included), "parse" the code from the JSON check to the
\* generated query, "connect" the opening of the connection, "execute" the try inside
\* the connection scope.
Handler(site) ==
    CASE site = "access" -> "inner"
      [] site = "execute" -> "sql"
      [] site \in {"generate", "parse", "connect"} -> "outer"
      [] OTHER -> "none"

\* the response ask returns for an exception raised at site; None: it leaves ask
Catch(site, message, sql_query) ==
    CASE Handler(site) = "inner" -> InnerExcept(message)
      [] Handler(site) = "sql" -> SqlExcept(message, sql_query)
      [] Handler(site) = "outer" -> OuterExcept(message)
      [] OTHER -> None

\* an exception raised in the request: where, and its message
Exception(site, message) == [site |-> site, message |-> message]

\* ask returns before it reaches the database: the envelope, and the exceptions raised
\* on the way to it
Returned(envelope, raised) == [returns |-> TRUE, response |-> envelope, raised |-> raised]

\* an exception raised at site: the response of the except clause it reaches
Raised(site, message) == Returned(Catch(site, message, PyStr("")), <<Exception(site, message)>>)

\* the fields of the parsed completion; the query is normalized before it is used
Generated(sql_query, answer, chart_title, is_time_series, query_type) ==
    IF Truthy(sql_query) /\ sql_query.t # "str" THEN Raised("parse", "expected string or bytes-like object")
    ELSE IF query_type.t # "str" THEN Raised("parse", "object has no attribute 'upper'")
    ELSE IF ~Truthy(sql_query) THEN Returned(ShortEnvelope(MsgNoSql, PyStr("N/A")), <<>>)
    ELSE [returns |-> FALSE, sql_query |-> PyStr(FixProductColumnInSql(sql_query.s)), answer |-> answer,
          chart_title |-> chart_title, is_time_series |-> is_time_series, query_type |-> query_type]

\* llm_data.get(...) of the five fields, with their defaults
ParseData(llm_data) ==
    Generated(DictGet(llm_data, "sql_query", None),
              DictGet(llm_data, "answer", PyStr("I found some data for you.")),
              DictGet(llm_data, "chart_title", PyStr("")),
              DictGet(llm_data, "is_time_series", PyBool(FALSE)),
              DictGet(llm_data, "query_type", PyStr("analytical")))

\* json.loads(cleaned_json_str)
ParseLoaded(loaded) == IF loaded.ok THEN ParseData(loaded.obj) ELSE Raised("parse", "Expecting value")

\* if not cleaned_json_str: raise Exception(...)
ParseCleaned(raw, cleaned_json_str) ==
    IF cleaned_json_str = None THEN Raised("parse", "LLM did not return valid JSON. Response: " \o raw)
    ELSE ParseLoaded(JsonLoads(cleaned_json_str.s))

\* if not llm_text: the early return
ParseText(llm_text) ==
    IF llm_text = "" THEN Returned(ShortEnvelope(MsgNoText, PyStr("")), <<>>)
    ELSE ParseCleaned(llm_text, CleanLlmResponse(llm_text))

\* ask from the reading of a completion that has parts to the generated query: either
\* it returns (returns, response, the exception raised if there was one) or it goes on
\* to the database with the parsed fields
ParseCompletion(llm_response) ==
    IF llm_response.text = None THEN Raised("access", llm_response.message)
    ELSE ParseText(Strip(llm_response.text.s))

\* A faulty variant of NoCandidates: the emptiness of a completion is never noticed.
NeverEmpty(llm_response) == FALSE

\* if not llm_response.candidates or not llm_response.candidates[0].content.parts
NoCandidates(llm_response) == ~llm_response.has_parts

\* A call of generate_content in the log: its prompt and how it ended ("pending" while
\* it runs, then "raise", "empty" for a completion without candidate content, "parts").
Call(prompt) == [prompt |-> prompt, outcome |-> "pending"]

OutcomeOf(o) == IF o.kind = "raise" THEN "raise" ELSE IF o.has_parts THEN "parts" ELSE "empty"

\* the last call of the log has ended with o
Answered(log, o) == [log EXCEPT ![Len(log)].outcome = OutcomeOf(o)]

\* A call of conn.execute(text(query)) in the log: the query, the stage ("primary" or
\* "summary"), whether it is the second attempt of try_execute_sql, and how it ended:
\* "failed" with the message of the failure, or "returned" with the number of rows
\* fetched (-1 when fetchall raised).
Execution(query, stage, retry) ==
    [query |-> query, stage |-> stage, retry |-> retry, status |-> "pending", error |-> "", rows |-> -1]

Failed(log, message) == [log EXCEPT ![Len(log)].status = "failed", ![Len(log)].error = message]

Succeeded(log, rows) == [log EXCEPT ![Len(log)].status = "returned", ![Len(log)].rows = rows]

\* The completions of the model, and what ask makes of each.  The
\* tables below hold the values of the pure functions of ask at the inputs of the
\* model; the actions read them, so that a value is computed once.
Completions == {o \in SynthesisOutcomes : o.kind # "raise"}

Parsed == [o \in Completions |-> ParseCompletion(o)]

\* the generated queries, normalized
GeneratedQueries == {Parsed[o].sql_query.s : o \in {c \in Completions : ~Parsed[c].returns}}

\* summary_query = self._generate_summary_query(sql_query)
SummaryQueryOf == [q \in GeneratedQueries |-> GenerateSummaryQuery(q)]

\* the queries try_execute_sql is called with
ExecutedQueries ==
    GeneratedQueries \cup {SummaryQueryOf[q].s : q \in {g \in GeneratedQueries : Truthy(SummaryQueryOf[g])}}

\* query_like = re.sub(...), the query of the second attempt
QueryLikeOf == [q \in ExecutedQueries |-> QueryLike(q)]

\* the columns of the result of each summary query the database is sent
SummaryKeysFor == [q \in ExecutedQueries \cup {QueryLikeOf[e] : e \in ExecutedQueries} |-> SummaryKeysOf(q)]

(***************************************************************************)
(* Insight generator: QueryAgent._generate_insights                        *)
(***************************************************************************)
RECURSIVE TakeRows(_, _)
\* viz_data[:n] as a sequence of rows
TakeRows(rows, n) ==
    IF n = 0 \/ rows = <<>> THEN <<>>
    ELSE IF Head(rows).times <= n THEN [i \in 1..Head(rows).times |-> Head(rows).row] \o TakeRows(Tail(rows), n - Head(rows).times)
    ELSE [i \in 1..n |-> Head(rows).row]

NameColumns == {"product_name", "importer/exporter_name", "formatted_name", "product"}

\* the names of the sample: the name column of the first ten rows
NameColumn(first) == First({i \in 1..Len(first) : Lower(first[i][1]) \in NameColumns})

NamesOf(top, name_col) == IF name_col = 0 THEN <<>> ELSE [k \in 1..Len(top) |-> Str(top[k][name_col][2])]

\* top = viz_data[:10] and name_col are computed once, then read for every name
SampleNames(viz_data) ==
    CHOOSE names \in {NamesOf(top, name_col) : top \in {TakeRows(viz_data, 10)},
                                               name_col \in {NameColumn(Head(viz_data).row)}} : TRUE

\* the precondition of the completion call: both inputs non-empty
InsightsWanted(viz_data, summary_stats) == Truthy(summary_stats) /\ viz_data # <<>>

\* the prompt of the narrative: the fixed instructions around these values
InsightPrompt(user_query, viz_data, summary_stats) ==
    [kind |-> "insight", user_query |-> user_query, stats |-> summary_stats.items[1],
     sample |-> SampleNames(viz_data), row_count |-> RowCount(viz_data)]

\* what _generate_insights returns once its completion call has ended
InsightsOf(llm_response) ==
    IF llm_response.kind = "raise" \/ llm_response.text = None THEN None
    ELSE PyStr(Strip(llm_response.text.s))

\* what _generate_insights returns for each outcome of the narrative call
Narratives == [o \in InsightOutcomes |-> InsightsOf(o)]

(***************************************************************************)
(* The two responses of a request whose queries ran                        *)
(***************************************************************************)
ExportNotice(row_count) ==
    "The dataset contains **" \o Thousands(row_count) \o " rows**. I am preparing a downloadable Excel file..."

\* the answer of the export response: an f-string over answer and insights
ExportAnswer(answer, insights, row_count) ==
    PyStr(Str(answer) \o "\n\n" \o Str(insights) \o " \n\n" \o ExportNotice(row_count))

ExportResponse(g, insights, row_count, job_id) ==
    [answer |-> ExportAnswer(g.answer, insights, row_count), data |-> <<>>, query |-> g.sql_query,
     chart_title |-> g.chart_title, export_job_id |-> job_id, query_type |-> g.query_type,
     is_time_series |-> g.is_time_series]

NoDataAnswer(user_query) ==
    "I've looked for the data you requested:\n~" \o user_query
    \o "~\nHowever, I couldn't find any matching records in the database."

\* the answer of the normal response (steps 9 and 10)
NormalAnswer(answer, insights, data_for_viz, user_query) ==
    IF data_for_viz = <<>> THEN PyStr(NoDataAnswer(user_query))
    ELSE IF Truthy(insights) THEN PyStr(Str(answer) \o "\n\n" \o Str(insights))
    ELSE answer

NormalResponse(g, insights, data_for_viz, user_query) ==
    [answer |-> NormalAnswer(g.answer, insights, data_for_viz, user_query), data |-> data_for_viz,
     query |-> g.sql_query, chart_title |-> g.chart_title, query_type |-> g.query_type,
     is_time_series |-> g.is_time_series]

(***************************************************************************)
(* State                                                                   *)
(***************************************************************************)
\* requests served in one run of the model
MaxRequests == 1

\* the latest second the clock shows in one run of the model
MaxClock == 1

VARIABLES
    pc,             \* where the request handler stands in ask
    user_query,     \* the arguments of ask
    history,
    gen,            \* the fields of the parsed completion: sql_query (normalized), answer, ...
    data_for_viz,   \* the formatted rows of the primary query
    summary_stats,  \* the rows of the summary query, None when it was skipped
    job_id,         \* the job identifier of the export path, None off it
    response,       \* what ask returned, None before
    llm_log,        \* the calls of generate_content in this request: prompt and outcome
    db_log,         \* the calls of conn.execute in this request: query and outcome
    exc_log,        \* the exceptions raised in this request, in order
    export_jobs,    \* the registry: job identifier -> [status, progress, file]
    tasks,          \* the export_job threads started, in order
    files,          \* the spreadsheet files in the export directory
    now,            \* int(time.time()) at its last reading
    served,         \* requests started so far
    polled,         \* what export_status returned to the last status request, None before
    subject,        \* the argument a function under study is applied to, None in the server
    applied         \* the function applied to subject and what it returned, None before

request == <<user_query, history, gen, data_for_viz, summary_stats, job_id>>
logs == <<llm_log, db_log, exc_log>>
background == <<export_jobs, tasks, files>>
bench == <<polled, subject, applied>>
vars == <<pc, request, response, logs, background, now, served, bench>>

\* the state after construction, whatever is under study
Boot ==
    /\ pc = "idle"
    /\ user_query = "" /\ history = <<>> /\ gen = None
    /\ data_for_viz = <<>> /\ summary_stats = None /\ job_id = None
    /\ response = None
    /\ llm_log = <<>> /\ db_log = <<>> /\ exc_log = <<>>
    /\ export_jobs = <<>> /\ tasks = <<>> /\ files = {}
    /\ now = 0
    /\ served = 0
    /\ polled = None /\ applied = None

Init == Boot /\ subject = None

(***************************************************************************)
(* QueryAgent.ask, one action per call of an external capability           *)
(***************************************************************************)
\* ask returns resp; None: the exception left ask
Return(resp) ==
    /\ response' = resp
    /\ pc' = IF resp = None THEN "raised" ELSE "done"

\* an exception with this message is raised at site
Raise(site, message, sql_query) ==
    /\ exc_log' = Append(exc_log, Exception(site, message))
    /\ Return(Catch(site, message, sql_query))

\* ask is called: the smalltalk check, and the first completion call
Ask(q, h) ==
    /\ pc = "idle"
    /\ served' = served + 1
    /\ user_query' = q /\ history' = h
    /\ db_log' = <<>> /\ exc_log' = <<>>
    /\ IF Truthy(DetectSmalltalk(q))
       THEN /\ Return(SmalltalkEnvelope(DetectSmalltalk(q)))
            /\ llm_log' = <<>>
       ELSE /\ pc' = "generate"
            /\ llm_log' = <<Call(SynthesisPrompt(q, h))>>
            /\ response' = None
    /\ UNCHANGED <<gen, data_for_viz, summary_stats, job_id, background, now, bench>>

\* chat receives a request, one of the MaxRequests of a run
Start(q, h) ==
    /\ served < MaxRequests
    /\ Ask(q, h)

\* the completion has parts: ask reads it and either returns or opens the connection
Proceed(parsed) ==
    IF parsed.returns
    THEN /\ Return(parsed.response)
         /\ exc_log' = exc_log \o parsed.raised
         /\ UNCHANGED gen
    ELSE /\ gen' = parsed
         /\ pc' = "connect"
         /\ UNCHANGED <<response, exc_log>>

\* the first completion call ends
GenerateReturn(o) ==
    /\ pc = "generate"
    /\ IF o.kind = "raise"
       THEN /\ Raise("generate", o.message, PyStr(""))
            /\ llm_log' = Answered(llm_log, o)
            /\ UNCHANGED gen
       ELSE IF NoCandidates(o)
       THEN /\ pc' = "generate_retry"
            /\ llm_log' = Append(Answered(llm_log, o), Call(SynthesisPrompt(user_query, history)))
            /\ UNCHANGED <<gen, response, exc_log>>
       ELSE /\ Proceed(Parsed[o])
            /\ llm_log' = Answered(llm_log, o)
    /\ UNCHANGED <<user_query, history, data_for_viz, summary_stats, job_id, db_log, background, now, served, bench>>

\* the repeated completion call ends
GenerateRetryReturn(o) ==
    /\ pc = "generate_retry"
    /\ llm_log' = Answered(llm_log, o)
    /\ IF o.kind = "raise"
       THEN Raise("access", o.message, PyStr("")) /\ UNCHANGED gen
       ELSE IF NoCandidates(o)
       THEN Return(ShortEnvelope(MsgEmptyCompletion, PyStr(""))) /\ UNCHANGED <<gen, exc_log>>
       ELSE Proceed(Parsed[o])
    /\ UNCHANGED <<user_query, history, data_for_viz, summary_stats, job_id, db_log, background, now, served, bench>>

ConnectError == "Login timeout expired"

\* self.engine.connect() ends; on success the primary query is executed
ConnectReturn(ok) ==
    /\ pc = "connect"
    /\ IF ok
       THEN /\ pc' = "execute"
            /\ db_log' = Append(db_log, Execution(gen.sql_query.s, "primary", FALSE))
            /\ UNCHANGED <<response, exc_log>>
       ELSE Raise("connect", ConnectError, PyStr("")) /\ UNCHANGED db_log
    /\ UNCHANGED <<request, llm_log, background, now, served, bench>>

\* A faulty variant of RetryPlace: the second attempt runs under the except clause of
\* the first, so that its failure is repaired again.
SamePlace(place) == place

\* where ask stands while the second attempt of try_execute_sql runs: return
\* conn.execute(text(query_like)), outside the try of the first attempt
RetryPlace(place) == place \o "_retry"

\* the query of the last conn.execute
LastQuery == IF db_log = <<>> THEN "" ELSE db_log[Len(db_log)].query

\* A faulty variant of AfterSummary: on the normal path the narrative call is made
\* whatever the statistics and the rows are.
AfterSummaryNarrating(viz_data, stats) ==
    IF ExceedsThreshold(RowCount(viz_data))
    THEN /\ pc' = "register"
         /\ UNCHANGED <<response, llm_log>>
    ELSE /\ pc' = "insights"
         /\ llm_log' = Append(llm_log, Call([kind |-> "insight", user_query |-> user_query]))
         /\ UNCHANGED response

\* the code of ask after the summary step: the export decision and, on the normal path,
\* the narrative step
AfterSummary(viz_data, stats) ==
    IF ExceedsThreshold(RowCount(viz_data))
    THEN /\ pc' = "register"
         /\ UNCHANGED <<response, llm_log>>
    ELSE IF InsightsWanted(viz_data, stats)
    THEN /\ pc' = "insights"
         /\ llm_log' = Append(llm_log, Call(InsightPrompt(user_query, viz_data, stats)))
         /\ UNCHANGED response
    ELSE /\ Return(NormalResponse(gen, None, viz_data, user_query))
         /\ UNCHANGED llm_log

\* A faulty variant of Fetched: the summary query is sent while the result of the
\* primary query is still unread.
FetchedLater(viz_data, summary_query) ==
    /\ data_for_viz' = viz_data
    /\ summary_stats' = None
    /\ UNCHANGED exc_log
    /\ IF Truthy(summary_query)
       THEN /\ pc' = "summary"
            /\ db_log' = Append(db_log, Execution(summary_query.s, "summary", FALSE))
            /\ UNCHANGED <<response, llm_log>>
       ELSE /\ AfterSummary(viz_data, None)
            /\ db_log' = Succeeded(db_log, RowCount(viz_data))

\* the primary query returned a result: fetchall, the formatting of the rows, and the
\* derivation of the summary query, which is executed when there is one
Fetched(viz_data, summary_query) ==
    /\ data_for_viz' = viz_data
    /\ summary_stats' = None
    /\ UNCHANGED exc_log
    /\ IF Truthy(summary_query)
       THEN /\ pc' = "summary"
            /\ db_log' = Append(Succeeded(db_log, RowCount(viz_data)), Execution(summary_query.s, "summary", FALSE))
            /\ UNCHANGED <<response, llm_log>>
       ELSE /\ AfterSummary(viz_data, None)
            /\ db_log' = Succeeded(db_log, RowCount(viz_data))

AfterPrimary(o) ==
    IF ~o.fetch_ok
    THEN /\ Raise("execute", FetchError, gen.sql_query)
         /\ db_log' = Succeeded(db_log, -1)
         /\ UNCHANGED <<data_for_viz, summary_stats, llm_log>>
    ELSE Fetched(FormatRows(o.keys, o.rows), SummaryQueryOf[gen.sql_query.s])

\* conn.execute of the primary query ends (try_execute_sql, first attempt)
ExecuteReturn(o) ==
    /\ pc = "execute"
    /\ IF o.kind = "raise"
       THEN IF IsRepairable(o.message)
            THEN /\ pc' = RetryPlace("execute")
                 /\ db_log' = Append(Failed(db_log, o.message), Execution(QueryLikeOf[gen.sql_query.s], "primary", TRUE))
                 /\ exc_log' = Append(exc_log, Exception("try_execute_sql", o.message))
                 /\ UNCHANGED <<response, data_for_viz, summary_stats, llm_log>>
            ELSE /\ Raise("execute", o.message, gen.sql_query)
                 /\ db_log' = Failed(db_log, o.message)
                 /\ UNCHANGED <<data_for_viz, summary_stats, llm_log>>
       ELSE AfterPrimary(o)
    /\ UNCHANGED <<user_query, history, gen, job_id, background, now, served, bench>>

\* conn.execute of the rewritten primary query ends (try_execute_sql, second attempt)
ExecuteRetryReturn(o) ==
    /\ pc = "execute_retry"
    /\ IF o.kind = "raise"
       THEN /\ Raise("execute", o.message, gen.sql_query)
            /\ db_log' = Failed(db_log, o.message)
            /\ UNCHANGED <<data_for_viz, summary_stats, llm_log>>
       ELSE AfterPrimary(o)
    /\ UNCHANGED <<user_query, history, gen, job_id, background, now, served, bench>>

\* the summary query returned a result: fetchall and the dictionaries of its rows
\* [dict(zip(summary_column_names, row)) for row in summary_rows]
SummaryStats(keys, rows) == PyList([i \in 1..Len(rows) |-> [k \in 1..Len(keys) |-> <<keys[k], rows[i].row[k]>>]])

Summarised(stats) ==
    /\ summary_stats' = stats
    /\ UNCHANGED exc_log
    /\ AfterSummary(data_for_viz, stats)

AfterSummaryQuery(o) ==
    IF ~o.fetch_ok
    THEN /\ Raise("execute", FetchError, gen.sql_query)
         /\ db_log' = Succeeded(db_log, -1)
         /\ UNCHANGED <<summary_stats, llm_log>>
    ELSE /\ Summarised(SummaryStats(SummaryKeysFor[LastQuery], o.rows))
         /\ db_log' = Succeeded(db_log, RowCount(o.rows))

\* conn.execute of the summary query ends (try_execute_sql, first attempt)
SummaryReturn(o) ==
    /\ pc = "summary"
    /\ IF o.kind = "raise"
       THEN IF IsRepairable(o.message)
            THEN /\ pc' = RetryPlace("summary")
                 /\ db_log' = Append(Failed(db_log, o.message), Execution(QueryLikeOf[LastQuery], "summary", TRUE))
                 /\ exc_log' = Append(exc_log, Exception("try_execute_sql", o.message))
                 /\ UNCHANGED <<response, summary_stats, llm_log>>
            ELSE /\ Raise("execute", o.message, gen.sql_query)
                 /\ db_log' = Failed(db_log, o.message)
                 /\ UNCHANGED <<summary_stats, llm_log>>
       ELSE AfterSummaryQuery(o)
    /\ UNCHANGED <<user_query, history, gen, data_for_viz, job_id, background, now, served, bench>>

\* A faulty variant of SummaryRetryReturn: a failure of the second attempt is caught and
\* the request goes on without statistics.
SummaryRetryOptional(o) ==
    /\ pc = "summary_retry"
    /\ IF o.kind = "raise"
       THEN /\ db_log' = Failed(db_log, o.message)
            /\ exc_log' = Append(exc_log, Exception("try_execute_sql", o.message))
            /\ summary_stats' = None
            /\ AfterSummary(data_for_viz, None)
       ELSE AfterSummaryQuery(o)
    /\ UNCHANGED <<user_query, history, gen, data_for_viz, job_id, background, now, served, bench>>

\* conn.execute of the rewritten summary query ends (try_execute_sql, second attempt)
SummaryRetryReturn(o) ==
    /\ pc = "summary_retry"
    /\ IF o.kind = "raise"
       THEN /\ Raise("execute", o.message, gen.sql_query)
            /\ db_log' = Failed(db_log, o.message)
            /\ UNCHANGED <<summary_stats, llm_log>>
       ELSE AfterSummaryQuery(o)
    /\ UNCHANGED <<user_query, history, gen, data_for_viz, job_id, background, now, served, bench>>

\* the entry a job is registered with
NewJob == [status |-> "processing", progress |-> 0, file |-> None]

\* export_jobs[job_id] = entry
Put(jobs, key, entry) == [k \in DOMAIN jobs \cup {key} |-> IF k = key THEN entry ELSE jobs[k]]

\* job_id = str(int(time.time())); export_jobs[job_id] = {...}.  The clock shows t, which
\* is not earlier than its last reading.
Register(t) ==
    /\ pc = "register"
    /\ t >= now
    /\ now' = t
    /\ job_id' = PyStr(IntToStr(t))
    /\ export_jobs' = Put(export_jobs, IntToStr(t), NewJob)
    /\ pc' = "spawn"
    /\ UNCHANGED <<user_query, history, gen, data_for_viz, summary_stats, response, logs, tasks, files, served, bench>>

\* Thread(target=export_job).start(), and the narrative step of the export path
Spawn ==
    /\ pc = "spawn"
    /\ tasks' = Append(tasks, [job_id |-> job_id.s, rows |-> RowCount(data_for_viz), at |-> "write"])
    /\ IF InsightsWanted(data_for_viz, summary_stats)
       THEN /\ pc' = "export_insights"
            /\ llm_log' = Append(llm_log, Call(InsightPrompt(user_query, data_for_viz, summary_stats)))
            /\ UNCHANGED response
       ELSE /\ Return(ExportResponse(gen, None, RowCount(data_for_viz), job_id))
            /\ UNCHANGED llm_log
    /\ UNCHANGED <<request, db_log, exc_log, export_jobs, files, now, served, bench>>

\* the exception a failed narrative call raises inside _generate_insights
InsightFailure(o) == IF Narratives[o] = None THEN <<Exception("_generate_insights", o.message)>> ELSE <<>>

\* the narrative call of the normal path ends
InsightsReturn(o) ==
    /\ pc = "insights"
    /\ llm_log' = Answered(llm_log, o)
    /\ exc_log' = exc_log \o InsightFailure(o)
    /\ Return(NormalResponse(gen, Narratives[o], data_for_viz, user_query))
    /\ UNCHANGED <<request, db_log, background, now, served, bench>>

\* the narrative call of the export path ends
ExportInsightsReturn(o) ==
    /\ pc = "export_insights"
    /\ llm_log' = Answered(llm_log, o)
    /\ exc_log' = exc_log \o InsightFailure(o)
    /\ Return(ExportResponse(gen, Narratives[o], RowCount(data_for_viz), job_id))
    /\ UNCHANGED <<request, db_log, background, now, served, bench>>

\* chat hands the response to the client; the frame of ask is gone
Deliver ==
    /\ pc \in {"done", "raised"}
    /\ pc' = "idle"
    /\ user_query' = "" /\ history' = <<>> /\ gen' = None
    /\ data_for_viz' = <<>> /\ summary_stats' = None /\ job_id' = None
    /\ response' = None
    /\ llm_log' = <<>> /\ db_log' = <<>> /\ exc_log' = <<>>
    /\ UNCHANGED <<background, now, served, bench>>

(***************************************************************************)
(* export_job, the background thread of one export                         *)
(***************************************************************************)
Filename(id) == "export_" \o id \o ".xlsx"

\* the thread i moves to a place of export_job
Moved(i, place) == [tasks EXCEPT ![i].at = place]

\* the spreadsheet is written, or writing it raises
TaskWrite(i, written) ==
    /\ tasks[i].at = "write"
    /\ IF written
       THEN files' = files \cup {Filename(tasks[i].job_id)} /\ tasks' = Moved(i, "status")
       ELSE files' = files /\ tasks' = Moved(i, "except")
    /\ UNCHANGED <<pc, request, response, logs, export_jobs, now, served, bench>>

\* export_jobs[job_id]["status"] = "ready"
TaskSetStatus(i) ==
    /\ tasks[i].at = "status"
    /\ export_jobs' = [export_jobs EXCEPT ![tasks[i].job_id].status = "ready"]
    /\ tasks' = Moved(i, "progress")
    /\ UNCHANGED <<pc, request, response, logs, files, now, served, bench>>

\* export_jobs[job_id]["progress"] = 100
TaskSetProgress(i) ==
    /\ tasks[i].at = "progress"
    /\ export_jobs' = [export_jobs EXCEPT ![tasks[i].job_id].progress = 100]
    /\ tasks' = Moved(i, "file")
    /\ UNCHANGED <<pc, request, response, logs, files, now, served, bench>>

\* export_jobs[job_id]["file"] = filename
TaskSetFile(i) ==
    /\ tasks[i].at = "file"
    /\ export_jobs' = [export_jobs EXCEPT ![tasks[i].job_id].file = PyStr(Filename(tasks[i].job_id))]
    /\ tasks' = Moved(i, "end")
    /\ UNCHANGED <<pc, request, response, logs, files, now, served, bench>>

\* A faulty variant of TaskSetError: the except clause leaves the entry as it is.
TaskSwallowError(i) ==
    /\ tasks[i].at = "except"
    /\ tasks' = Moved(i, "end")
    /\ UNCHANGED <<pc, request, response, logs, export_jobs, files, now, served, bench>>

\* except Exception: export_jobs[job_id]["status"] = "error"
TaskSetError(i) ==
    /\ tasks[i].at = "except"
    /\ export_jobs' = [export_jobs EXCEPT ![tasks[i].job_id].status = "error"]
    /\ tasks' = Moved(i, "end")
    /\ UNCHANGED <<pc, request, response, logs, files, now, served, bench>>

Next ==
    \/ \E q \in UserQueries, h \in Histories : Start(q, h)
    \/ \E o \in SynthesisOutcomes : GenerateReturn(o)
    \/ \E o \in SynthesisOutcomes : GenerateRetryReturn(o)
    \/ \E ok \in BOOLEAN : ConnectReturn(ok)
    \/ \E o \in PrimaryOutcomes : ExecuteReturn(o)
    \/ \E o \in PrimaryOutcomes : ExecuteRetryReturn(o)
    \/ \E o \in SummaryOutcomes : SummaryReturn(o)
    \/ \E o \in SummaryOutcomes : SummaryRetryReturn(o)
    \/ \E t \in 0..MaxClock : Register(t)
    \/ Spawn
    \/ \E o \in InsightOutcomes : InsightsReturn(o)
    \/ \E o \in InsightOutcomes : ExportInsightsReturn(o)
    \/ Deliver
    \/ \E i \in DOMAIN tasks, written \in BOOLEAN : TaskWrite(i, written)
    \/ \E i \in DOMAIN tasks : TaskSetStatus(i)
    \/ \E i \in DOMAIN tasks : TaskSetProgress(i)
    \/ \E i \in DOMAIN tasks : TaskSetFile(i)
    \/ \E i \in DOMAIN tasks : TaskSetError(i)

Spec == Init /\ [][Next]_vars

\* the steps of ask after its first completion call is made
AskNext ==
    \/ \E o \in SynthesisOutcomes : GenerateReturn(o)
    \/ \E o \in SynthesisOutcomes : GenerateRetryReturn(o)
    \/ \E ok \in BOOLEAN : ConnectReturn(ok)
    \/ \E o \in PrimaryOutcomes : ExecuteReturn(o)
    \/ \E o \in PrimaryOutcomes : ExecuteRetryReturn(o)
    \/ \E o \in SummaryOutcomes : SummaryReturn(o)
    \/ \E o \in SummaryOutcomes : SummaryRetryReturn(o)
    \/ \E t \in 0..MaxClock : Register(t)
    \/ Spawn
    \/ \E o \in InsightOutcomes : InsightsReturn(o)
    \/ \E o \in InsightOutcomes : ExportInsightsReturn(o)

\* Every call of the completion capability and of the database ends (it returns or it
\* raises), and the thread of the request is scheduled: ask takes its next step.
FairSpec == Spec /\ WF_vars(AskNext)

(***************************************************************************)
(* The export service: the requests whose result is exported, the threads  *)
(* of export_job, and the status route export_status                       *)
(***************************************************************************)
\* export requests served in one run of the model
MaxExports == 2

\* the identifiers a client asks the status of
JobIds == {IntToStr(t) : t \in 0..MaxClock}

\* return {"status": "not_found"}, 404
NotFound == [code |-> 404, body |-> [status |-> "not_found"]]

\* return job
Found(job) == [code |-> 200, body |-> job]

\* A faulty variant of ExportStatus: the entry of a job whose file was written is
\* removed once a client has seen it.
ExportStatusOnce(id) ==
    /\ polled' = IF id \in DOMAIN export_jobs THEN Found(export_jobs[id]) ELSE NotFound
    /\ export_jobs' = [k \in {j \in DOMAIN export_jobs : j # id \/ export_jobs[j].file = None} |-> export_jobs[k]]
    /\ UNCHANGED <<pc, request, response, logs, tasks, files, now, served, subject, applied>>

\* export_status(job_id): job = export_jobs.get(job_id, None)
ExportStatus(id) ==
    /\ polled' = IF id \in DOMAIN export_jobs THEN Found(export_jobs[id]) ELSE NotFound
    /\ UNCHANGED <<pc, request, response, logs, background, now, served, subject, applied>>

\* the questions whose result is exported, and what the capabilities answer to them
ExportQueries == {"history of zinc imports"}

ExportCompletions == {LlmText(TextFenced)}

ExportResults == {DbResult(PrimaryKeys, PrimaryRows(EXPORT_THRESHOLD + 1), TRUE)}

ExportSummaries == {DbResult(<<>>, <<[row |-> SummaryRow, times |-> 1]>>, TRUE), DbResult(<<>>, <<>>, TRUE)}

ExportInsights == {LlmText(InsightText)}

\* the steps of one thread of export_job
TaskNext(i) ==
    /\ i \in DOMAIN tasks
    /\ \/ \E written \in BOOLEAN : TaskWrite(i, written)
       \/ TaskSetStatus(i)
       \/ TaskSetProgress(i)
       \/ TaskSetFile(i)
       \/ TaskSetError(i)

\* the steps of ask on the way of an exported result
ExportAskNext ==
    \/ \E o \in ExportCompletions : GenerateReturn(o)
    \/ ConnectReturn(TRUE)
    \/ \E o \in ExportResults : ExecuteReturn(o)
    \/ \E o \in ExportSummaries : SummaryReturn(o)
    \/ \E t \in 0..MaxClock : Register(t)
    \/ Spawn
    \/ \E o \in ExportInsights : ExportInsightsReturn(o)

ExportNext ==
    \/ \E q \in ExportQueries, h \in Histories : served < MaxExports /\ Ask(q, h)
    \/ ExportAskNext
    \/ Deliver
    \/ \E i \in 1..MaxExports : TaskNext(i)

ExportSpec == Init /\ [][ExportNext]_vars

\* Every call ask makes ends, and every started thread is scheduled until it ends.
FairExportSpec == ExportSpec /\ WF_vars(ExportAskNext) /\ \A i \in 1..MaxExports : WF_vars(TaskNext(i))

\* the export service and its clients, who ask for the status of a job at any moment
StatusNext ==
    \/ ExportNext
    \/ \E id \in JobIds : ExportStatus(id)

StatusSpec == Init /\ [][StatusNext]_vars

(***************************************************************************)
(* The rewriting functions on their own: _fix_product_column_in_sql and    *)
(* the query_like of try_execute_sql, applied to SQL texts                 *)
(***************************************************************************)
\* the texts before the WHERE keyword
SqlHeads ==
    {"SELECT Product_Name, SUM(QUANTITY_KG) AS Q FROM View_Clean_Imports",
     "SELECT CASE WHEN Product LIKE '%zinc ingot%' THEN 1 END AS z, Importer_Name FROM t"}

\* the WHERE clauses
SqlWheres ==
    {"",
     " WHERE Product_Name LIKE '%zinc ingot%'",
     " where [Product] like '%Dimer Fatty Acid%' AND Importer_Name = 'Acme'",
     " WHERE [Product_Name]  LIKE\t'% hav ing %' AND (Product LIKE '%a b%' OR Product_Name='Tin')",
     " WHERE SubProduct LIKE '%x y%' AND t.Exporter_Name  =  'Zed Ltd' AND Importer_Name >= 'M'",
     " WHERE Product LIKE 'zinc%' AND Exporter_Name = 'O''Brien' AND importer_name = 'Acme'",
     " WHERE Product_Name = 'Zinc Ingot' AND Product_Name LIKE '%  %' AND Product LIKE '%% %%'",
     " WHERE BE_Date >= '2024-01-01' AND [Importer_Name] = 'Acme' AND Exporter_Name = ''"}

\* the texts after the WHERE clause
SqlTails ==
    {"",
     " GROUP BY Product_Name ORDER BY Q DESC",
     " HAVING Product_Name LIKE '%Zinc Ingot%' AND Product_Name = 'Zinc'",
     " UNION SELECT 1, 2 FROM u WHERE Product LIKE '%tin ore%' order by 1\n",
     " GROUP BY Product_Name UNION SELECT Product_Name, 1 FROM u WHERE Product_Name LIKE '%tin ore%'"}

SqlInputs == {h \o w \o t : h \in SqlHeads, w \in SqlWheres, t \in SqlTails}

\* applications of the normalizer in a row, each to the output of the one before
MaxPasses == 2

\* fn was applied to arg, for the n-th time in a row, and returned out
Application(fn, n, arg, out) == [fn |-> fn, n |-> n, arg |-> arg, out |-> out]

RewriteInit == Boot /\ subject \in {PyStr(q) : q \in SqlInputs}

\* sql_query = self._fix_product_column_in_sql(sql_query), on the text and then on what
\* the normalizer returned
Normalize ==
    /\ \/ applied = None /\ applied' = Application("normalize", 1, subject.s, FixProductColumnInSql(subject.s))
       \/ /\ applied # None /\ applied.fn = "normalize" /\ applied.n < MaxPasses
          /\ applied' = Application("normalize", applied.n + 1, applied.out, FixProductColumnInSql(applied.out))
    /\ UNCHANGED <<pc, request, response, logs, background, now, served, polled, subject>>

\* query_like = re.sub(...) in the except clause of try_execute_sql
Repair ==
    /\ applied = None
    /\ applied' = Application("query_like", 1, subject.s, QueryLike(subject.s))
    /\ UNCHANGED <<pc, request, response, logs, background, now, served, polled, subject>>

RewriteNext == Normalize \/ Repair

RewriteSpec == RewriteInit /\ [][RewriteNext]_vars

(***************************************************************************)
(* The derived summary query on its own: what the database returns for the *)
(* statement of _generate_summary_query on the rows its WHERE clause keeps *)
(***************************************************************************)
\* rows of a filtered population
MaxRows == 2

EntityNames == {PyStr("ACME METALS"), PyStr("ZED LTD")}

ShipmentValues == {PyInt(300), PyInt(600)}

\* QUANTITY_KG: NULL, zero, or a weight
Quantities == {None, PyInt(0), PyInt(4)}

ShipmentDates == {PyDate(2024, 1, 2), PyDate(2024, 3, 5)}

\* the columns of a row the statement reads: name_col, Total_Value_INR, QUANTITY_KG, date_col
Shipments == [name : EntityNames, value : ShipmentValues, qty : Quantities, date : ShipmentDates]

Populations == UNION {[1..n -> Shipments] : n \in 0..MaxRows}

\* the values of a column that are not NULL
NonNull(rows, col) == SelectSeq([i \in 1..Len(rows) |-> rows[i][col]], LAMBDA v : v # None)

Range(seq) == {seq[i] : i \in 1..Len(seq)}

RECURSIVE SumOf(_)
SumOf(ints) == IF ints = <<>> THEN 0 ELSE Head(ints).n + SumOf(Tail(ints))

\* SUM(col): NULL when no row has a value
SqlSum(rows, col) == IF NonNull(rows, col) = <<>> THEN None ELSE PyInt(SumOf(NonNull(rows, col)))

\* COUNT(*) and COUNT(DISTINCT col)
SqlCount(rows) == PyInt(Len(rows))

SqlCountDistinct(rows, col) == PyInt(Cardinality(Range(NonNull(rows, col))))

\* the order of the values of a column
SortKey(v) == IF v.t = "date" THEN v.y * 10000 + v.m * 100 + v.d ELSE v.n

\* MAX(col) and MIN(col): NULL when no row has a value
SqlMax(rows, col) ==
    IF NonNull(rows, col) = <<>> THEN None
    ELSE CHOOSE v \in Range(NonNull(rows, col)) : \A u \in Range(NonNull(rows, col)) : SortKey(u) <= SortKey(v)

SqlMin(rows, col) ==
    IF NonNull(rows, col) = <<>> THEN None
    ELSE CHOOSE v \in Range(NonNull(rows, col)) : \A u \in Range(NonNull(rows, col)) : SortKey(v) <= SortKey(u)

\* A faulty variant of NullIf: the divisor is left as it is.
NullIfNever(x, y) == x

\* NULLIF(x, y)
NullIf(x, y) == IF x # None /\ x = y THEN None ELSE x

\* error 8134 of SQL Server
DivideByZero == "Divide by zero error encountered."

\* x / y: NULL when an operand is NULL, an error when y is zero, the quotient num/den else
SqlDivide(x, y) ==
    IF x = None \/ y = None THEN None
    ELSE IF y.n = 0 THEN [t |-> "error", message |-> DivideByZero]
    ELSE [t |-> "decimal", num |-> x.n, den |-> y.n]

\* the row of the CTE Aggregates: an aggregation without GROUP BY has one row
Aggregates(rows) ==
    <<SqlCount(rows), SqlCountDistinct(rows, "name"), SqlSum(rows, "value"), SqlSum(rows, "qty"),
      SqlDivide(SqlSum(rows, "value"), NullIf(SqlSum(rows, "qty"), PyInt(0))),
      SqlMax(rows, "value"), SqlMin(rows, "date"), SqlMax(rows, "date"), SqlCountDistinct(rows, "date")>>

\* the rows of the group of a name, and the row of the group in the CTE TopEntity
GroupOf(rows, name) == SelectSeq(rows, LAMBDA r : r.name = name)

GroupRow(rows, name) == <<name, SqlSum(GroupOf(rows, name), "value")>>

\* the rows TOP 1 ... ORDER BY TopEntityValue DESC may keep: a group of the largest sum
TopGroups(rows) ==
    {GroupRow(rows, name) : name \in {n \in Range(NonNull(rows, "name")) :
        \A m \in Range(NonNull(rows, "name")) : GroupRow(rows, m)[2].n <= GroupRow(rows, n)[2].n}}

\* the CTE TopEntity: no row when there is no group, else one of the top groups
TopEntity(rows) == IF TopGroups(rows) = {} THEN {<<>>} ELSE {<<g>> : g \in TopGroups(rows)}

\* FROM Aggregates a CROSS JOIN TopEntity t, with the columns a.*, t.name, t.TopEntityValue
CrossJoin(a, top) == [i \in 1..Len(top) |-> [row |-> a \o top[i], times |-> 1]]

\* what execute returns for the summary statement: the statement fails when a column
\* of Aggregates does
SummaryOutcome(rows, top) ==
    IF \E k \in 1..Len(Aggregates(rows)) : Aggregates(rows)[k].t = "error"
    THEN DbRaise(DivideByZero)
    ELSE DbResult(SummaryKeys("Company"), CrossJoin(Aggregates(rows), top), TRUE)

SummaryInit == Boot /\ subject \in {[t |-> "rows", rows |-> p] : p \in Populations}

\* conn.execute(text(summary_query)) on the population
EvaluateSummary ==
    /\ applied = None
    /\ \E top \in TopEntity(subject.rows) :
           applied' = Application("summary", 1, subject.rows, SummaryOutcome(subject.rows, top))
    /\ UNCHANGED <<pc, request, response, logs, background, now, served, polled, subject>>

SummarySpec == SummaryInit /\ [][EvaluateSummary]_vars

(***************************************************************************)
(* Properties of QueryAgent.ask.  What a request has done is read from its  *)
(* logs: the completion calls, the executions and the exceptions.           *)
(***************************************************************************)
\* the completion calls for query synthesis, and those for the narrative
SynthesisCalls == {i \in DOMAIN llm_log : llm_log[i].prompt.kind = "synthesis"}

NarrativeCalls == {i \in DOMAIN llm_log : llm_log[i].prompt.kind = "insight"}

\* the executions of the primary query, or of the summary query
Executions(stage) == {i \in DOMAIN db_log : db_log[i].stage = stage}

\* the executions of the primary query whose rows were fetched
PrimaryFetched == {i \in Executions("primary") : db_log[i].status = "returned" /\ db_log[i].rows >= 0}

\* the number of rows the primary query gave
FetchedRows == db_log[CHOOSE i \in PrimaryFetched : TRUE].rows

\* the text of the answer of a response
AnswerText(r) == IF r.answer.t = "str" THEN r.answer.s ELSE ""

\* the fixed messages of the early returns and of the except clauses
FixedMessages == {MsgEmptyCompletion, MsgNoText, MsgTemporaryIssue, MsgNoSql, MsgSqlError, MsgGeneric}

\* the places where an exception reaches the frame of ask and ends the pipeline; the
\* others are caught inside try_execute_sql (the repair) and inside _generate_insights
TerminalSites == {"generate", "access", "parse", "connect", "execute"}

Aborted == \E i \in DOMAIN exc_log : exc_log[i].site \in TerminalSites

AllPhrases == greetings \cup wellbeing \cup gratitude \cup help_queries

\* the user texts of the model that hold a phrase of the four sets between word
\* boundaries, letter case ignored
SmalltalkTexts ==
    {q \in UserQueries : \E phrase \in AllPhrases : \E i \in 1..Len(q) : KeywordAt(q, i, phrase)}

CannedResponses == {GreetingResponse, WellbeingResponse, GratitudeResponse, HelpResponse}

\* C1: a request whose text matches a smalltalk phrase is answered at once with the
\* canned text of a category, empty data, the empty query and the query type
\* "analytical", and neither the completion capability nor the database is called.
C1_SmalltalkShortCircuit ==
    (pc # "idle" /\ user_query \in SmalltalkTexts) =>
        /\ pc = "done"
        /\ {"answer", "data", "query", "query_type"} \subseteq DOMAIN response
        /\ AnswerText(response) \in CannedResponses
        /\ AnswerText(response) # ""
        /\ response.data = <<>>
        /\ response.query = PyStr("")
        /\ response.query_type = PyStr("analytical")
        /\ llm_log = <<>>
        /\ db_log = <<>>

\* a text with a gratitude phrase and a wellbeing phrase, in upper and lower case, is
\* answered with the wellbeing text
C1_Witness ==
    /\ pc = "done"
    /\ user_query \in SmalltalkTexts
    /\ user_query = "thanks, how are you"
    /\ response.answer = PyStr(WellbeingResponse)
    /\ llm_log = <<>>

\* C2: when the first completion of the synthesis prompt has no candidate content,
\* generate_content is called exactly once more, with the same prompt; when the second
\* completion is empty too, ask returns the apology with empty data and the empty
\* query, after two completion calls and no execution.
C2_EmptyCompletionRetry ==
    (llm_log # <<>> /\ llm_log[1].outcome = "empty") =>
        /\ Len(llm_log) >= 2
        /\ llm_log[2].prompt = llm_log[1].prompt
        /\ Cardinality(SynthesisCalls) = 2
        /\ (llm_log[2].outcome = "empty") =>
               /\ pc = "done"
               /\ {"answer", "data", "query"} \subseteq DOMAIN response
               /\ response.answer = PyStr(MsgEmptyCompletion)
               /\ response.data = <<>>
               /\ response.query = PyStr("")
               /\ Len(llm_log) = 2
               /\ db_log = <<>>

C2_Witness ==
    /\ pc = "done"
    /\ Len(llm_log) = 2
    /\ llm_log[1].outcome = "empty"
    /\ llm_log[2].outcome = "empty"
    /\ llm_log[2].prompt = SynthesisPrompt(user_query, history)
    /\ response.answer = PyStr(MsgEmptyCompletion)

\* the query of the second attempt of an execution: the repair of the first
RepairOf(i) == QueryLikeOf[db_log[i].query]

\* C3: for each query handed to try_execute_sql, a first execution that fails with an
\* invalid-column or a syntax failure is followed by exactly one execution of the
\* repaired query; a first failure of another kind is followed by no execution; a
\* failure of the second attempt is followed by no execution.
C3_RepairRetry ==
    \A i \in DOMAIN db_log :
        /\ (~db_log[i].retry /\ db_log[i].status = "failed"
            /\ db_log[i].error \in InvalidColumnFailures \cup SyntaxFailures) =>
               /\ i < Len(db_log)
               /\ db_log[i + 1].retry
               /\ db_log[i + 1].stage = db_log[i].stage
               /\ db_log[i + 1].query = RepairOf(i)
               /\ Cardinality(Executions(db_log[i].stage)) = 2
        /\ (~db_log[i].retry /\ db_log[i].status = "failed"
            /\ db_log[i].error \notin InvalidColumnFailures \cup SyntaxFailures) => i = Len(db_log)
        /\ (db_log[i].retry /\ db_log[i].status = "failed") => i = Len(db_log)

\* C4, as it is stated: ask never raises, and once an exception was raised in a request
\* the answer is one of the fixed messages and holds no text of an exception.
C4_AsStated ==
    /\ pc # "raised"
    /\ (pc = "done" /\ exc_log # <<>>) =>
           /\ "answer" \in DOMAIN response
           /\ AnswerText(response) \in FixedMessages
           /\ \A i \in DOMAIN exc_log : ~Contains(AnswerText(response), exc_log[i].message)

\* C4: ask never raises: every request ends with a response that has an answer, data
\* and a query.  The answer holds no text of an exception raised in the request.  When
\* an exception ended the pipeline (it reached an except clause of ask) the answer is
\* one of the fixed messages and data is empty; an exception caught inside
\* try_execute_sql or inside _generate_insights leaves the pipeline running.
C4_NoRaiseNoLeak ==
    /\ pc # "raised"
    /\ (pc = "done") =>
           /\ {"answer", "data", "query"} \subseteq DOMAIN response
           /\ \A i \in DOMAIN exc_log : ~Contains(AnswerText(response), exc_log[i].message)
           /\ Aborted => (AnswerText(response) \in FixedMessages /\ response.data = <<>>)

\* the connection fails after a completion that gave a query: the generic message
C4_Witness ==
    /\ pc = "done"
    /\ exc_log = <<Exception("connect", ConnectError)>>
    /\ response = ShortEnvelope(MsgGeneric, PyStr(""))

EnvelopeFields == {"answer", "data", "query", "chart_title", "query_type", "is_time_series"}

\* C5: every response of ask has the fields answer, data, query, chart_title,
\* query_type and is_time_series, and has export_job_id exactly on the export path.
C5_StableFields ==
    (pc = "done") =>
        /\ EnvelopeFields \subseteq DOMAIN response
        /\ ("export_job_id" \in DOMAIN response) <=> (job_id # None)

\* the execution i of the primary query failed and no second attempt follows it
PrimaryFailedTerminally(i) ==
    /\ db_log[i].stage = "primary"
    /\ db_log[i].status = "failed"
    /\ (db_log[i].retry \/ i = Len(db_log) \/ ~db_log[i + 1].retry)

\* C6: when the primary query fails terminally, ask returns the "couldn't run" message
\* with empty data and, as query, the generated SQL after normalization, the one that
\* was attempted first; that execution is the last of the request and no narrative
\* call is made.
C6_PrimaryFailure ==
    \A i \in DOMAIN db_log :
        PrimaryFailedTerminally(i) =>
            /\ i = Len(db_log)
            /\ pc = "done"
            /\ {"answer", "data", "query"} \subseteq DOMAIN response
            /\ response.answer = PyStr(MsgSqlError)
            /\ response.data = <<>>
            /\ response.query = gen.sql_query
            /\ response.query = PyStr(db_log[1].query)
            /\ NarrativeCalls = {}
            /\ \A k \in DOMAIN llm_log : llm_log[k].outcome # "pending"

\* the second attempt fails too; the query of the response is the normalized one, with
\* the product predicate rewritten, and not the repaired one
C6_Witness ==
    /\ pc = "done"
    /\ Len(db_log) = 2
    /\ PrimaryFailedTerminally(2)
    /\ db_log[2].query # db_log[1].query
    /\ response.query = PyStr(db_log[1].query)
    /\ Contains(db_log[1].query, "[Product] LIKE '%ZINCINGOT%'")

\* the request is in ask, between its first completion call and its return
Active == pc \notin {"idle", "done", "raised"}

\* the calls of a request stay within their numbers
C7_Bounds ==
    /\ Cardinality(SynthesisCalls) <= 2
    /\ Cardinality(NarrativeCalls) <= 1
    /\ Cardinality(Executions("primary")) <= 2
    /\ Cardinality(Executions("summary")) <= 2
    /\ (db_log # <<>>) =>
           /\ \A k \in SynthesisCalls : llm_log[k].outcome # "pending"
           /\ llm_log[Max0(SynthesisCalls)].outcome = "parts"

\* once a query was executed, no step of the request adds a synthesis call
C7_NoCompounding ==
    (db_log # <<>> /\ pc' # "idle") => Cardinality(SynthesisCalls') = Cardinality(SynthesisCalls)

\* the places of ask, in the order of the code
Rank(place) ==
    CASE place = "idle" -> 0
      [] place = "generate" -> 1
      [] place = "generate_retry" -> 2
      [] place = "connect" -> 3
      [] place = "execute" -> 4
      [] place = "execute_retry" -> 5
      [] place = "summary" -> 6
      [] place = "summary_retry" -> 7
      [] place = "register" -> 8
      [] place = "spawn" -> 9
      [] place \in {"insights", "export_insights"} -> 10
      [] OTHER -> 11

\* while ask runs, a step is a step of a task, which leaves the request as it is, or it
\* moves ask to a later place
C7_Progress == Active => (UNCHANGED <<pc, request, response, logs>> \/ Rank(pc') > Rank(pc))

\* ask never raises, and where it stops it has returned a response
C7_Ends ==
    /\ pc # "raised"
    /\ (pc = "done") => "answer" \in DOMAIN response

\* C7: every call of ask ends with a response (it never raises, each of its steps moves
\* it to a later place, and a call that runs leads to a returned response), after at
\* most 2 synthesis calls, 1 narrative call, and 2 executions each of the primary and
\* of the summary query.  No synthesis call follows an execution, and no execution
\* follows a synthesis call that gave an empty completion unless the repeated call
\* gave a completion with content.
C7_BoundedTermination ==
    /\ [](C7_Bounds /\ C7_Ends)
    /\ [][C7_NoCompounding /\ C7_Progress]_vars
    /\ (Active ~> (pc = "done" /\ "answer" \in DOMAIN response))

\* a request that used every call it may make
C7_Witness ==
    /\ pc = "done"
    /\ Cardinality(SynthesisCalls) = 2
    /\ Cardinality(NarrativeCalls) = 1
    /\ Cardinality(Executions("primary")) = 2
    /\ Cardinality(Executions("summary")) = 2
    /\ "chart_title" \in DOMAIN response

\* the generated queries in which the deriver finds no FROM clause
NoFromQueries ==
    {q \in GeneratedQueries : ~TableMatch(QueryToSearch(q, CteMainSelect(q))).ok}

\* the request has ended, its primary query gave rows, and no FROM clause is found
SummarySkipped ==
    /\ pc = "done"
    /\ gen # None
    /\ gen.sql_query.s \in NoFromQueries
    /\ PrimaryFetched # {}

\* the rows of the primary result as ask formats them
FormattedRows == FormatRows(PrimaryKeys, PrimaryRows(FetchedRows))

\* C8, as it is stated: without a FROM clause in the primary query no summary query is
\* executed, nothing is raised, and data carries the formatted rows.
C8_AsStated ==
    SummarySkipped =>
        /\ Executions("summary") = {}
        /\ summary_stats = None
        /\ ~Aborted
        /\ response.data = FormattedRows

\* C8: without a FROM clause in the primary query the deriver returns None: no summary
\* query is executed and nothing is raised.  Data carries the formatted rows when there
\* are at most 10,000 of them; above that data is empty and the rows are those of the
\* export task.
C8_SummarySkipped ==
    SummarySkipped =>
        /\ Executions("summary") = {}
        /\ summary_stats = None
        /\ ~Aborted
        /\ NarrativeCalls = {}
        /\ IF FetchedRows <= EXPORT_THRESHOLD
           THEN response.data = FormattedRows
           ELSE /\ response.data = <<>>
                /\ "export_job_id" \in DOMAIN response
                /\ \E t \in DOMAIN tasks :
                       tasks[t].job_id = response.export_job_id.s /\ tasks[t].rows = FetchedRows

C8_Witness ==
    /\ SummarySkipped
    /\ FetchedRows = EXPORT_THRESHOLD
    /\ RowCount(response.data) = EXPORT_THRESHOLD
    /\ response.data # <<>>

\* the narrative of the request is None: no narrative call was made, or it failed
NarrativeNone ==
    \/ NarrativeCalls = {}
    \/ \E i \in DOMAIN exc_log : exc_log[i].site = "_generate_insights"

\* the request has ended with the primary result
Completed == pc = "done" /\ PrimaryFetched # {} /\ ~Aborted

\* the text of the answer between the generated answer and the export notice
AnswerMiddle(text, head, tail) == Between(text, Len(head) + 1, Len(text) - Len(tail) + 1)

\* C9: when the narrative is None the request still ends with the primary result, and
\* the answer has no narrative portion: on the normal path it is the generated answer
\* (the no-data message for an empty result), on the export path the generated answer
\* and the export notice with nothing but white space between them.
C9_NarrativeOmitted ==
    (Completed /\ NarrativeNone) =>
        IF FetchedRows > EXPORT_THRESHOLD
        THEN /\ At(AnswerText(response), 1, Str(gen.answer))
             /\ Strip(AnswerMiddle(AnswerText(response), Str(gen.answer), ExportNotice(FetchedRows))) = ""
        ELSE /\ response.answer = (IF FetchedRows = 0 THEN PyStr(NoDataAnswer(user_query)) ELSE gen.answer)
             /\ response.data = FormattedRows

\* C10, as it is stated: a primary result of more than 10,000 rows gives a response
\* with empty data and the key of a registered job; 10,000 rows or fewer give a
\* response that carries the rows, and no job.
C10_AsStated ==
    (pc = "done" /\ PrimaryFetched # {}) =>
        IF FetchedRows > EXPORT_THRESHOLD
        THEN /\ response.data = <<>>
             /\ "export_job_id" \in DOMAIN response
             /\ response.export_job_id.s # ""
             /\ response.export_job_id.s \in DOMAIN export_jobs
        ELSE /\ "export_job_id" \notin DOMAIN response
             /\ job_id = None
             /\ response.data = FormattedRows

\* the response of a request that ended with the primary result
C10_Response ==
    Completed =>
        IF FetchedRows > EXPORT_THRESHOLD
        THEN /\ response.data = <<>>
             /\ "export_job_id" \in DOMAIN response
             /\ response.export_job_id = job_id
             /\ response.export_job_id.s # ""
             /\ response.export_job_id.s \in DOMAIN export_jobs
             /\ \E t \in DOMAIN tasks : tasks[t].job_id = response.export_job_id.s
        ELSE /\ "export_job_id" \notin DOMAIN response
             /\ job_id = None
             /\ response.data = FormattedRows

\* a request that ended in an except clause has registered nothing
C10_Aborted == (pc = "done" /\ Aborted) => job_id = None

\* a step that writes an entry of the registry other than a step of a task: the
\* registration, for a result above the threshold, before the task is started
C10_Registers ==
    (export_jobs' # export_jobs /\ tasks' = tasks) =>
        /\ pc = "register"
        /\ RowCount(data_for_viz) > EXPORT_THRESHOLD
        /\ ~Aborted
        /\ job_id'.s \in DOMAIN export_jobs'
        /\ export_jobs'[job_id'.s] = NewJob
        /\ \A k \in DOMAIN export_jobs' \ {job_id'.s} : k \in DOMAIN export_jobs /\ export_jobs'[k] = export_jobs[k]

\* a step that starts a task: after the registration, for a result above the threshold
C10_Starts ==
    (Len(tasks') > Len(tasks)) =>
        /\ pc = "spawn"
        /\ RowCount(data_for_viz) > EXPORT_THRESHOLD
        /\ job_id.s \in DOMAIN export_jobs
        /\ tasks' = Append(tasks, [job_id |-> job_id.s, rows |-> RowCount(data_for_viz), at |-> "write"])

\* C10: when the primary result has more than 10,000 rows and the summary step has not
\* failed, ask registers the entry (processing, 0, no file) before it starts the task,
\* and returns empty data and the registered key as export_job_id; with 10,000 rows or
\* fewer, and when the summary step fails, nothing is registered and no task is
\* started, and data carries the rows unless the summary step failed.
C10_ExportThreshold ==
    /\ [](C10_Response /\ C10_Aborted)
    /\ [][C10_Registers /\ C10_Starts]_vars

C10_Witness ==
    /\ Completed
    /\ FetchedRows = EXPORT_THRESHOLD + 1
    /\ response.data = <<>>
    /\ response.export_job_id.s \in DOMAIN export_jobs
    /\ export_jobs[response.export_job_id.s] = NewJob
    /\ \E t \in DOMAIN tasks : tasks[t].job_id = response.export_job_id.s /\ tasks[t].at = "write"

(***************************************************************************)
(* Properties of the export registry, of the threads of export_job and of  *)
(* the status route                                                        *)
(***************************************************************************)
Statuses == {"processing", "ready", "error"}

\* the entries whose status this step changes
Restated == {id \in DOMAIN export_jobs : export_jobs'[id].status # export_jobs[id].status}

\* the entries this step writes to
Written == {id \in DOMAIN export_jobs : export_jobs'[id] # export_jobs[id]}

\* the threads that take this step
Stepping == {i \in DOMAIN tasks : tasks'[i] # tasks[i]}

\* the threads started for the job id
TasksOf(id) == {i \in DOMAIN tasks : tasks[i].job_id = id}

C11_Ranges ==
    \A id \in DOMAIN export_jobs :
        /\ export_jobs[id].status \in Statuses
        /\ export_jobs[id].progress \in 0..100

C11_Transitions ==
    \A id \in Restated :
        /\ export_jobs[id].status = "processing"
        /\ export_jobs'[id].status \in {"ready", "error"}

\* C11: every registry entry has a status among processing, ready and error and an
\* integer progress from 0 to 100; the status of an entry changes only from processing to
\* ready or from processing to error, so an entry that is ready or error keeps its status.
C11_JobLifecycle == []C11_Ranges /\ [][C11_Transitions]_vars

C12_DistinctIds == \A i, j \in DOMAIN tasks : i # j => tasks[i].job_id # tasks[j].job_id

\* the step of line 900 writes under a key the registry does not hold yet
C12_FreshKey == (pc = "register" /\ pc' = "spawn") => job_id'.s \notin DOMAIN export_jobs

\* C12: any two export jobs allocated in one process lifetime have distinct job ids, those
\* of requests within the same clock second included, and allocating a job never
\* overwrites an entry the registry holds.
C12_UniqueJobIds == []C12_DistinctIds /\ [][C12_FreshKey]_vars

\* C13: after its creation a registry entry is written only by the one thread started for
\* its job: a step that changes an entry is a step of a thread of that job and of no request
\* handler, and that job has no second thread.
C13_SingleWriter ==
    [][\A id \in Written :
           /\ pc' = pc
           /\ Stepping # {} /\ Stepping \subseteq TasksOf(id)
           /\ Cardinality(TasksOf(id)) = 1]_vars

\* C14: a status lookup that returns "ready" returns the output filename and progress 100
\* with it, and one that returns "processing" returns a null file.
C14_ConsistentSnapshot ==
    polled # None /\ polled.code = 200 =>
        /\ polled.body.status = "ready" => polled.body.file # None /\ polled.body.progress = 100
        /\ polled.body.status = "processing" => polled.body.file = None

\* a registered job leaves "processing"
C15_Settles ==
    \A id \in JobIds : []<>(id \notin DOMAIN export_jobs \/ export_jobs[id].status # "processing")

\* the thread whose spreadsheet is written marks its job ready, the thread that failed
\* marks it error
C15_Marks ==
    \A i \in Stepping :
        /\ tasks[i].at = "status" => export_jobs'[tasks[i].job_id].status = "ready"
        /\ tasks[i].at = "except" => export_jobs'[tasks[i].job_id].status = "error"

\* a status is set to ready only past a written spreadsheet, to error only in the except
\* clause of a failed thread
C15_Outcome ==
    \A id \in Restated :
        /\ export_jobs'[id].status = "ready" =>
               \E i \in Stepping \cap TasksOf(id) : tasks[i].at = "status" /\ Filename(id) \in files
        /\ export_jobs'[id].status = "error" =>
               \E i \in Stepping \cap TasksOf(id) : tasks[i].at = "except"

\* a thread only advances, it never writes again, and a thread is started by Spawn only
C15_NoRerun ==
    /\ \A i \in Stepping : tasks[i].at # "end" /\ tasks'[i].at # "write"
    /\ Len(tasks') # Len(tasks) => pc = "spawn" /\ Len(tasks') = Len(tasks) + 1
    /\ Len(tasks') <= served

\* C15: under fair scheduling every registered job leaves "processing": for "ready" when
\* the file was written, for "error" when a step of the thread failed; the thread that
\* failed is never run again.
C15_JobSettles == C15_Settles /\ [][C15_Marks /\ C15_Outcome /\ C15_NoRerun]_vars

\* one job is ready with its spreadsheet written and another has failed, their threads ended
C15_Witness ==
    \E i, j \in DOMAIN tasks :
        /\ tasks[i].at = "end" /\ export_jobs[tasks[i].job_id].status = "ready"
        /\ Filename(tasks[i].job_id) \in files
        /\ tasks[j].at = "end" /\ export_jobs[tasks[j].job_id].status = "error"
        /\ Filename(tasks[j].job_id) \notin files

(***************************************************************************)
(* Properties of the rewriting functions                                   *)
(***************************************************************************)
\* the position of the first WHERE keyword of q, 0 when it has none
WherePosition(q) == First({w \in 1..Len(q) : KeywordAt(q, w, "WHERE")})

\* a GROUP BY, ORDER BY or HAVING clause starts at position e of q
ClauseAt(q, e) == KeywordAt(q, e, "GROUP BY") \/ KeywordAt(q, e, "ORDER BY") \/ KeywordAt(q, e, "HAVING")

\* where the WHERE span of the keyword at w ends: the next clause, or the end of q
SpanEnd(q, w) == Min({e \in (w + 5)..(Len(q) + 1) : ClauseAt(q, e) \/ e = Len(q) + 1})

\* the first product predicate of a at or after position i, 0 when there is none
NextProductLike(a, i) == First({p \in i..Len(a) : ProductLikeAt(a, p).ok})

\* the predicate [Product] LIKE '%V%' for the value of a product predicate
Canonical(value) == "[Product] LIKE '%" \o Upper(RemoveSpaces(value)) \o "%'"

\* b from position j on is a from position i on with every product predicate in its
\* canonical form and all other text as it is
RECURSIVE Rewritten(_, _, _, _)
RewrittenAt(a, i, b, j, p, m) ==
    /\ j + (p - i) <= Len(b) + 1
    /\ Between(b, j, j + (p - i)) = Between(a, i, p)
    /\ At(b, j + (p - i), Canonical(m.value))
    /\ Rewritten(a, m.last + 1, b, j + (p - i) + Len(Canonical(m.value)))

Rewritten(a, i, b, j) ==
    IF NextProductLike(a, i) = 0 THEN From(b, j) = From(a, i)
    ELSE RewrittenAt(a, i, b, j, NextProductLike(a, i), ProductLikeAt(a, NextProductLike(a, i)))

\* r is q with its WHERE span, from after the keyword at w to before e, rewritten
FramedAt(q, r, w, e) ==
    /\ Len(r) >= w + 4 + (Len(q) + 1 - e)
    /\ SubSeq(r, 1, w + 4) = SubSeq(q, 1, w + 4)
    /\ From(r, Len(r) + 1 - (Len(q) + 1 - e)) = From(q, e)
    /\ Rewritten(Between(q, w + 5, e), 1, Between(r, w + 5, Len(r) + 1 - (Len(q) + 1 - e)), 1)

Framed(q, r) == IF WherePosition(q) = 0 THEN r = q ELSE FramedAt(q, r, WherePosition(q), SpanEnd(q, WherePosition(q)))

\* the normalizer has been applied
Normalized == applied # None /\ applied.fn = "normalize"

\* C16: the normalizer changes text only inside the WHERE span, from the WHERE keyword to
\* the next GROUP BY, ORDER BY or HAVING or to the end of the string: each predicate
\* <Product or Product_Name, bracketed or plain> LIKE '%value%' in it becomes
\* [Product] LIKE '%V%', V the value without spaces in upper case; the text before WHERE and
\* from the terminating clause on is what it was; a query without WHERE is returned as it is.
C16_WhereSpanOnly == Normalized => Framed(applied.arg, applied.out)

\* the normalizer rewrote a predicate of the WHERE span of a query that has a product
\* predicate before its WHERE and another after the clause that ends the span
C16_Witness ==
    /\ Normalized /\ applied.n = 1 /\ applied.out # applied.arg
    /\ WherePosition(applied.arg) # 0
    /\ NextProductLike(Between(applied.arg, 1, WherePosition(applied.arg)), 1) # 0
    /\ NextProductLike(From(applied.arg, SpanEnd(applied.arg, WherePosition(applied.arg))), 1) # 0
    /\ SpanEnd(applied.arg, WherePosition(applied.arg)) <= Len(applied.arg)

\* C17: the normalizer is idempotent: applied to a text it has returned, it returns that
\* text.
C17_Idempotent == Normalized /\ applied.n > 1 => applied.out = applied.arg

\* the normalizer was applied to its own output, which differs from the first text
C17_Witness == Normalized /\ applied.n = 2 /\ applied.arg # subject.s /\ applied.out = applied.arg

\* the columns whose equality predicates the repair loosens
RepairedColumns == {"Importer_Name", "Exporter_Name", "Product_Name"}

\* the tokens of a query: words, quoted literals, and single characters; spaces apart
RECURSIVE Tokens(_, _)
TokenTo(q, i, e) == <<Between(q, i, e)>> \o Tokens(q, e)

Tokens(q, i) ==
    IF i > Len(q) THEN <<>>
    ELSE IF IsSpace(Ch(q, i)) THEN Tokens(q, SkipSpaces(q, i))
    ELSE IF IsWordChar(Ch(q, i)) THEN TokenTo(q, i, RunEnd(q, i, WordChars))
    ELSE IF Ch(q, i) = "'" /\ NextQuote(q, i + 1) # 0 THEN TokenTo(q, i, NextQuote(q, i + 1) + 1)
    ELSE TokenTo(q, i, i + 1)

\* a quoted literal with a value in it
IsValueLiteral(tok) == Len(tok) >= 3 /\ Ch(tok, 1) = "'" /\ Ch(tok, Len(tok)) = "'"

\* the tokens with every <column> = '<value>' made <column> LIKE '%<value>%'
RECURSIVE Loosened(_)
Loosened(toks) ==
    IF toks = <<>> THEN <<>>
    ELSE IF Len(toks) >= 3 /\ toks[1] \in RepairedColumns /\ toks[2] = "=" /\ IsValueLiteral(toks[3])
    THEN <<toks[1], "LIKE", "'%" \o SubSeq(toks[3], 2, Len(toks[3]) - 1) \o "%'">> \o Loosened(SubSeq(toks, 4, Len(toks)))
    ELSE <<Head(toks)>> \o Loosened(Tail(toks))

\* the repair of try_execute_sql has been applied
Repaired == applied # None /\ applied.fn = "query_like"

Summarized == applied # None /\ applied.fn = "summary"

\* C18: the derived summary query, on any filtered population, the empty one included,
\* returns exactly one row, with the nine aggregates and the name and the value of the top
\* entity.
C18_OneSummaryRow ==
    Summarized =>
        /\ applied.out.kind = "result"
        /\ Len(applied.out.rows) = 1
        /\ Len(applied.out.rows[1].row) = 11
        /\ Len(applied.out.keys) = 11

\* the sum of a column over the rows that have a value in it
RECURSIVE Total(_, _)
Total(rows, col) ==
    IF rows = <<>> THEN 0
    ELSE (IF Head(rows)[col] = None THEN 0 ELSE Head(rows)[col].n) + Total(Tail(rows), col)

\* the column of the only row of the result
SummaryColumn(out, key) == out.rows[1].row[CHOOSE k \in 1..Len(out.keys) : out.keys[k] = key]

\* the weighted average price is the total value by the total quantity
IsQuotient(price, value, quantity) ==
    price.t = "decimal" /\ price.num * quantity = value * price.den /\ price.den # 0

\* C19: the weighted average price of the summary is the total value divided by the total
\* quantity when the total quantity is not zero and null when it is zero; evaluating the
\* summary never fails with a division by zero.
C19_WeightedAverage ==
    Summarized =>
        /\ applied.out.kind = "result"
        /\ applied.out.rows # <<>> =>
               IF Total(applied.arg, "qty") = 0
               THEN SummaryColumn(applied.out, "WeightedAvgPrice_INR") = None
               ELSE IsQuotient(SummaryColumn(applied.out, "WeightedAvgPrice_INR"),
                               Total(applied.arg, "value"), Total(applied.arg, "qty"))

\* the summary of rows that have quantities, all of them zero, has a null price
C19_Witness ==
    /\ Summarized /\ applied.out.kind = "result" /\ applied.out.rows # <<>>
    /\ \A i \in 1..Len(applied.arg) : applied.arg[i].qty = PyInt(0)
    /\ SummaryColumn(applied.out, "TotalQuantity_KG") = PyInt(0)
    /\ SummaryColumn(applied.out, "TotalValue_INR").n > 0
    /\ SummaryColumn(applied.out, "WeightedAvgPrice_INR") = None

(***************************************************************************)
(* QueryAgent.ask: what stands between a completion and the database       *)
(***************************************************************************)
\* the text ask reads from a completion that has parts
TextOf(o) == Strip(o.text.s)

\* the completions with a text to parse
TextCompletions == {o \in Completions : o.text # None /\ TextOf(o) # ""}

\* the completions in whose text _clean_llm_response finds no JSON object
NoJsonCompletions == {o \in TextCompletions : CleanLlmResponse(TextOf(o)) = None}

\* json.loads of the object extracted from the text of a completion
LoadedFrom == [o \in TextCompletions \ NoJsonCompletions |-> JsonLoads(CleanLlmResponse(TextOf(o)).s)]

\* the completions whose object parses and has no sql_query, or an empty one
NoSqlCompletions ==
    {o \in DOMAIN LoadedFrom : LoadedFrom[o].ok /\ ~Truthy(DictGet(LoadedFrom[o].obj, "sql_query", None))}

\* this step is ask reading the completion o
Reads(o) == GenerateReturn(o) \/ GenerateRetryReturn(o)

\* the request has ended before the database with this envelope
EndsWith(envelope) == pc' = "done" /\ response' = envelope /\ db_log' = <<>> /\ Len(llm_log') = Len(llm_log)

\* the database is reached only with a parsed completion and a non-empty query
C21_Guarded ==
    db_log # <<>> =>
        /\ \E i \in SynthesisCalls : llm_log[i].outcome = "parts"
        /\ gen # None /\ gen.sql_query.t = "str" /\ gen.sql_query.s # ""
        /\ \A i \in DOMAIN exc_log : exc_log[i].site \notin {"generate", "access", "parse"}

C21_NoJson == \A o \in NoJsonCompletions : Reads(o) => EndsWith(ShortEnvelope(MsgGeneric, PyStr("")))

C21_NoSql == \A o \in NoSqlCompletions : Reads(o) => EndsWith(ShortEnvelope(MsgNoSql, PyStr("N/A")))

\* C21: the database is executed only after a non-empty completion was obtained, a JSON
\* object was extracted and parsed from it and its sql_query is non-empty; a completion
\* without a JSON object ends the request with the generic failure envelope and no
\* further completion call; a missing or empty sql_query ends it with the "couldn't
\* generate a SQL query" envelope.
C21_GuardedExecution == []C21_Guarded /\ [][C21_NoJson /\ C21_NoSql]_vars

(***************************************************************************)
(* QueryAgent.ask: the order of the two executions                         *)
(***************************************************************************)
\* the executions ask is waiting for
Running == {i \in DOMAIN db_log : db_log[i].status = "pending"}

\* every execution of the summary query comes after a primary execution whose rows
\* were fetched, and after the end of every primary execution
C22_Order ==
    \A i \in Executions("summary") :
        /\ \E j \in PrimaryFetched : j < i
        /\ \A j \in Executions("primary") : j < i /\ db_log[j].status # "pending"

\* one execution at a time, inside the connection scope of the request
C22_Sequential ==
    \A i \in Running :
        /\ i = Len(db_log)
        /\ pc = (IF db_log[i].stage = "primary" THEN "execute" ELSE "summary") \o (IF db_log[i].retry THEN "_retry" ELSE "")

\* C22: the summary query is executed only after the primary query has executed
\* successfully and its rows were fetched, on the connection of the request and never
\* while another execution runs; after a terminal failure of the primary query the
\* summary query is not executed.
C22_SummaryAfterPrimary ==
    /\ C22_Order
    /\ C22_Sequential
    /\ \A i \in DOMAIN db_log : PrimaryFailedTerminally(i) => Executions("summary") = {}
    /\ (\E i \in Executions("primary") : db_log[i].status = "returned" /\ db_log[i].rows < 0) => Executions("summary") = {}

\* the first attempt of the primary query failed, its repair returned rows, and the
\* summary query runs
C22_Witness ==
    /\ Len(db_log) = 3
    /\ db_log[1].status = "failed"
    /\ 2 \in PrimaryFetched /\ db_log[2].retry /\ db_log[2].rows > 0
    /\ db_log[3].stage = "summary" /\ db_log[3].status = "pending"

(***************************************************************************)
(* The summary query and the population it aggregates: the server's        *)
(* reading of the two forms of a year comparison                           *)
(***************************************************************************)
\* GETDATE() while the queries of the model run
Today == PyDate(2025, 6, 15)

YearOps == {"=", ">", ">="}

YearExprs == {"2024", "YEAR(GETDATE())", "YEAR(GETDATE()) - 1"}

DerivedTails == {"", " ORDER BY BE_Date DESC"}

\* primary queries filtered by the year of the shipment date
YearQueries ==
    {"SELECT * FROM View_Clean_Imports WHERE YEAR(BE_Date) " \o op \o " " \o y \o t :
        op \in YearOps, y \in YearExprs, t \in DerivedTails}

\* the dates of the shipments the filters are read on
BillDates ==
    {PyDate(2023, 12, 31), PyDate(2024, 1, 1), PyDate(2024, 1, 2), PyDate(2024, 12, 31), PyDate(2025, 1, 1),
     PyDate(2025, 6, 15)}

\* the value of a year expression: four digits, or YEAR(GETDATE()) with an offset
YearOffset(s, sign, digits) ==
    IF sign = 0 THEN 0
    ELSE IF Ch(s, sign) = "-" THEN 0 - StrToInt(From(s, digits), 0) ELSE StrToInt(From(s, digits), 0)

YearValue(year_func) ==
    IF FourDigits(year_func, 1) # 0 THEN StrToInt(year_func, 0)
    ELSE Today.y + YearOffset(year_func, First({p \in 1..Len(year_func) : Ch(year_func, p) \in {"-", "+"}}),
                              SkipSpaces(year_func, First({p \in 1..Len(year_func) : Ch(year_func, p) \in {"-", "+"}}) + 1))

\* a op b on integers, for the operators of the pattern
Compare(op, a, b) ==
    CASE op = "=" -> a = b
      [] op = ">" -> a > b
      [] op = ">=" -> a >= b
      [] OTHER -> FALSE

\* YEAR(col) op Y read on a row whose col is the date d
YearSelects(m, d) == Compare(m.op, d.y, YearValue(m.year_func))

\* col op DATEFROMPARTS(Y, 1, 1) read on a row whose col is the date d
DateSelects(m, d) == Compare(m.op, SortKey(d), SortKey(PyDate(YearValue(m.year_func), 1, 1)))

\* the first comparison YEAR(col) op Y of a text
YearComparison(s) == SargableAt(s, First({p \in 1..Len(s) : SargableAt(s, p).ok}))

\* " col op DATEFROMPARTS(Y, 1, 1) " with the function name at position p
DateComparisonAt(s, p, o, e) ==
    IF p = 0 \/ o = 0 \/ e = 0 THEN NoMatch
    ELSE [ok |-> TRUE, op |-> Between(s, o, p - 1), year_func |-> Between(s, p + 14, e)]

\* the first comparison col op DATEFROMPARTS(Y, 1, 1) of a text
DateComparisonFrom(s, p) ==
    DateComparisonAt(s, p, Last({o \in 1..(p - 2) : Ch(s, o - 1) = " "}),
                     First({e \in (p + 14)..Len(s) : At(s, e, ", 1, 1)")}))

DateComparison(s) == DateComparisonFrom(s, First({p \in 1..Len(s) : At(s, p, "DATEFROMPARTS(")}))

\* the filter of a query selects a row of date d
Selects(query, d) ==
    IF YearComparison(query).ok THEN YearSelects(YearComparison(query), d)
    ELSE DateComparison(query).ok /\ DateSelects(DateComparison(query), d)

DeriveInit == Boot /\ subject \in {[t |-> "case", query |-> q, date |-> d] : q \in YearQueries, d \in BillDates}

\* summary_query = self._generate_summary_query(sql_query)
Derive ==
    /\ applied = None
    /\ applied' = Application("derive", 1, subject.query, GenerateSummaryQuery(subject.query))
    /\ UNCHANGED <<pc, request, response, logs, background, now, served, polled, subject>>

DeriveSpec == DeriveInit /\ [][Derive]_vars

\* the summary query of a primary query has been derived
Derived == applied # None /\ applied.fn = "derive"

\* the FROM and WHERE lines of a CTE of the summary query
CteSource(q) ==
    "FROM " \o TableMatch(q).table_name \o "\n            "
    \o SummaryWhereClause(q, UsableAlias(TableMatch(q).table_alias)) \o "\n"

\* C23: the summary query aggregates over the population the primary query filters:
\* both CTEs read the table of the primary query under its WHERE clause, and the
\* comparison col op DATEFROMPARTS(Y, 1, 1) that stands for YEAR(col) op Y selects
\* exactly the rows that one selects.
C23_SamePopulation ==
    Derived =>
        /\ applied.out # None
        /\ \A source \in {CteSource(applied.arg)} :
               Cardinality({i \in 1..Len(applied.out.s) : At(applied.out.s, i, source)}) = 2
        /\ DateComparison(applied.out.s).ok
        /\ Selects(applied.out.s, subject.date) <=> Selects(applied.arg, subject.date)

(***************************************************************************)
(* The normalizer on a query with several WHERE clauses                    *)
(***************************************************************************)
\* the WHERE keywords of q after its first
LaterWheres(q) == {w \in 1..Len(q) : KeywordAt(q, w, "WHERE") /\ w > WherePosition(q)}

\* the text of r that stands for q from position w on, when r ends as q does from w on
Counterpart(q, r, w) == From(r, Len(r) + 1 - (Len(q) + 1 - w))

\* the later WHERE clause at w, up to the end of the span of the first WHERE, stands
\* rewritten in r before the text that follows the span
RewrittenInside(q, r, w, e) ==
    \E j \in 1..(Len(r) + 1) : Rewritten(Between(q, w, e), 1, Between(r, 1, Len(r) + 1 - (Len(q) + 1 - e)), j)

\* a product predicate stands in the text a
HasProductLike(a) == NextProductLike(a, 1) # 0

BothPresent == Truthy(summary_stats) /\ data_for_viz # <<>>

\* the answer of a request whose narrative is None
AnswerWithout ==
    IF FetchedRows > EXPORT_THRESHOLD THEN ExportAnswer(gen.answer, None, FetchedRows)
    ELSE NormalAnswer(gen.answer, None, data_for_viz, user_query)

\* C25: the narrative call is made only with non-empty summary statistics and non-empty
\* formatted rows; when one of them is empty or absent the insight generator returns
\* None and no completion call is made for the narrative.
C25_InsightPrecondition ==
    /\ NarrativeCalls # {} => BothPresent
    /\ (Completed /\ ~BothPresent) =>
           /\ NarrativeCalls = {}
           /\ \A i \in DOMAIN exc_log : exc_log[i].site # "_generate_insights"
           /\ response.answer = AnswerWithout

\* the primary query gave rows and the summary query gave none: the request ends with
\* the rows and the generated answer, and the only completion call is the synthesis
C25_Witness ==
    /\ Completed
    /\ data_for_viz # <<>>
    /\ summary_stats = PyList(<<>>)
    /\ Len(llm_log) = 1
    /\ response.answer = gen.answer
    /\ response.data = data_for_viz

(***************************************************************************)
(* The registry keeps its entries                                          *)
(***************************************************************************)
\* the identifier ask has returned in the response that waits for its delivery
ReturnedId == IF pc = "done" /\ "export_job_id" \in DOMAIN response THEN {response.export_job_id.s} ELSE {}

\* no step removes a key of the registry
C26_Grows == DOMAIN export_jobs \subseteq DOMAIN export_jobs'

\* a lookup answers with the entry of a registered identifier and with not-found for
\* any other, and leaves the registry as it is
C26_Lookup ==
    \A id \in JobIds :
        ExportStatus(id) =>
            /\ polled' = (IF id \in DOMAIN export_jobs THEN Found(export_jobs[id]) ELSE NotFound)
            /\ polled'.code = (IF id \in DOMAIN export_jobs THEN 200 ELSE 404)
            /\ export_jobs' = export_jobs

\* C26: no entry of the registry is removed, so the identifier ask has returned is found
\* by every later lookup; the lookup of an identifier that was not allocated answers
\* not-found and changes nothing.
C26_EntriesKept == [](ReturnedId \subseteq DOMAIN export_jobs) /\ [][C26_Grows /\ C26_Lookup]_vars

\* the request of a failed export is long delivered, and a client still gets its entry
C26_Witness ==
    /\ pc = "idle" /\ served = 1
    /\ polled # None /\ polled.code = 200 /\ polled.body.status = "error"
    /\ Cardinality(DOMAIN export_jobs) = 1

(***************************************************************************)
(* The smalltalk classifier on texts with phrases of several categories    *)
(***************************************************************************)
\* phrases of the four categories, and words that hold a phrase inside them
TextParts == {"Hi", "how are you", "THANKS", "help", "history", "helpful", "coolant", "zinc"}

\* the user texts: two parts, with white space around them
SmalltalkInputs == {" " \o a \o ", " \o b \o "\n" : a, b \in TextParts}

SmalltalkInit == Boot /\ subject \in {PyStr(q) : q \in SmalltalkInputs}

\* smalltalk_response = self._detect_smalltalk(user_query)
Classify ==
    /\ applied = None
    /\ applied' = Application("smalltalk", 1, subject.s, DetectSmalltalk(subject.s))
    /\ UNCHANGED <<pc, request, response, logs, background, now, served, polled, subject>>

SmalltalkSpec == SmalltalkInit /\ [][Classify]_vars

\* the classifier has been applied
Classified == applied # None /\ applied.fn = "smalltalk"

\* the categories in their order of priority, and the canned text of each
Categories == <<greetings, wellbeing, gratitude, help_queries>>

CategoryResponses == <<GreetingResponse, WellbeingResponse, GratitudeResponse, HelpResponse>>

\* the categories a phrase of which stands in q as a word or as words of their own
MatchingCategories(q) ==
    {k \in 1..4 : \E phrase \in Categories[k] : \E i \in 1..Len(q) : KeywordAt(q, i, phrase)}

\* C27: the canned response is that of the first category, in the order greeting,
\* wellbeing, gratitude, help, a phrase of which stands in the text between word
\* boundaries; a phrase inside a longer word does not count; without a matching category
\* the classifier returns None.
C27_FirstCategoryWins ==
    Classified =>
        applied.out = (IF MatchingCategories(applied.arg) = {} THEN None
                       ELSE PyStr(CategoryResponses[Min(MatchingCategories(applied.arg))]))

\* a help phrase before a gratitude phrase: the answer is the gratitude text
C27_Witness ==
    /\ Classified
    /\ applied.arg = " help, THANKS\n"
    /\ MatchingCategories(applied.arg) = {3, 4}
    /\ applied.out = PyStr(GratitudeResponse)

(***************************************************************************)
(* QueryAgent.ask: a summary query that fails                              *)
(***************************************************************************)
\* the execution i of the summary query ended the summary step with a failure: it
\* failed and no second attempt follows it, or the fetch of its rows raised
SummaryFailedTerminally(i) ==
    /\ db_log[i].stage = "summary"
    /\ \/ db_log[i].status = "failed" /\ (db_log[i].retry \/ i = Len(db_log) \/ ~db_log[i + 1].retry)
       \/ db_log[i].status = "returned" /\ db_log[i].rows < 0

\* C28: when the primary query succeeded and the summary query fails terminally, ask
\* returns the "couldn't run" envelope with empty data and the generated query: the
\* fetched rows are not returned, no narrative call is made and no export job is
\* registered.
C28_SummaryFailure ==
    \A i \in DOMAIN db_log :
        SummaryFailedTerminally(i) =>
            /\ i = Len(db_log)
            /\ PrimaryFetched # {}
            /\ pc = "done"
            /\ response = ShortEnvelope(MsgSqlError, gen.sql_query)
            /\ response.data = <<>>
            /\ "export_job_id" \notin DOMAIN response
            /\ NarrativeCalls = {}
            /\ job_id = None

\* a primary result of 10,001 rows, whose summary query fails, is repaired and fails
\* again: the rows are lost and nothing is exported
C28_Witness ==
    /\ Len(db_log) = 3
    /\ SummaryFailedTerminally(3) /\ db_log[3].retry /\ db_log[3].status = "failed"
    /\ FetchedRows = EXPORT_THRESHOLD + 1
    /\ data_for_viz # <<>>
    /\ response.data = <<>>
    /\ export_jobs = <<>>

====
